---- MODULE Spec2Model ----
(***************************************************************************)
(* State machine of the ErrsoleMySQL storage class: the startup sequence   *)
(* (initialize), the pending-log buffer (postLogs), the flusher            *)
(* (flushLogs) with its interval timer, and the two retention sweeps       *)
(* (deleteExpiredLogs, deleteExpiredNotificationItems) with their hourly   *)
(* schedule.  Every database round trip is a suspension point: an action   *)
(* runs the code from one callback up to the next query it issues.         *)
(***************************************************************************)
EXTENDS Integers, Sequences, FiniteSets, TLC

(* ------------------------------------------------------------------ *)
(* Program constants                                                   *)
(* ------------------------------------------------------------------ *)

\* this.batchSize = 100
batchSize == 100

\* tableQueries holds four CREATE TABLE statements, run under Promise.all
tableQueriesLength == 4

\* const DEFAULT_LOGS_LIMIT = 100 in getLogs
DEFAULT_LOGS_LIMIT == 100

(* ------------------------------------------------------------------ *)
(* Bounds of the model                                                 *)
(* ------------------------------------------------------------------ *)

\* number of postLogs calls the host makes
MaxPostCalls == 2

\* number of times the flush interval fires
MaxFlushTicks == 2

\* sizes of the arrays handed to postLogs
PostSizes == {1, batchSize - 1, batchSize}

\* number of times the hourly job fires
MaxCronTicks == 2

\* number of times the hourly job fires where a table holds more rows than
\* one DELETE takes
MaxBatchCronTicks == 2

\* number of times the host calls initialize() again, and the firings of the
\* interval and of the hourly job where it does
MaxInitializeAgain == 1
MaxReinitFlushTicks == 2
MaxReinitCronTicks == 1

\* number of calls of the config methods the host makes
MaxConfigCalls == 3

\* largest id of a stored log row, largest limit and number of getLogs calls
\* where the host reads the logs back
MaxLogId == 4
MaxLimit == 3
MaxGetLogsCalls == 1

\* number of postLogs calls, of interval firings and of getLogs calls where
\* the host reads back what it posted
MaxReadBackPosts == 2
MaxReadBackFlushTicks == 2
MaxReadBackCalls == 1

\* number of insertNotificationItem calls and of steps of the clock where the
\* host inserts notifications
MaxNotificationCalls == 2
MaxClockTicks == 2

\* the same, with the postLogs calls and the interval firings, where
\* notifications and flushes share the pool
MaxPoolNotificationCalls == 2
MaxPoolPostCalls == 1
MaxPoolFlushTicks == 2

\* number of postLogs calls, of interval firings and of deleteAllLogs calls
\* where the logs table is cleared
MaxClearPostCalls == 2
MaxClearFlushTicks == 2
MaxDeleteAllLogsCalls == 1

\* number of interval firings, and of postLogs calls made while a firing is
\* left, where the timer is taken to keep firing
MaxTimerFlushTicks == 3
MaxTimerPostCalls == 2

\* number of calls the host makes on the users table and on the config table
\* where both are studied
MaxUserCalls == 2

\* the same three bounds where startup, flusher and sweeps run together
MaxStartupPostCalls == 1
MaxStartupFlushTicks == 1
MaxStartupCronTicks == 1

VARIABLES
    isConnectionInProgress, \* this.isConnectionInProgress
    pendingLogs,            \* this.pendingLogs: sequence of log entries
    initPc,                 \* position of initialize()
    tableQueriesDone,       \* CREATE TABLE statements that have called back
    readyEmitted,           \* number of 'ready' events emitted
    initCompleted,          \* history: the steps of initialize that returned
    flushTimers,            \* intervals armed by setInterval
    cronJobs,               \* jobs armed by cron.schedule
    checkedOut,             \* pool connections acquired and not yet released
    configTable,            \* rows of the config table
    logsTable,              \* rows of the logs table, in id order
    logsNextId,             \* AUTO_INCREMENT counter of the logs table
    now,                    \* the clock, in units of 100 ms
    flushes,                \* flushLogs invocations, in invocation order
    drained,                \* history: non-empty batches, in drain order
    nextEntry,              \* history: number of entries handed to postLogs
    postCalls,              \* history: one record per postLogs call
    flushTicks,             \* history: number of interval firings
    deleteExpiredLogsRunning,               \* this.deleteExpiredLogsRunning
    deleteExpiredNotificationItemsRunning,  \* the flag of the other sweep
    notificationsTable,     \* rows of the notifications table, in id order
    logSweeps,              \* deleteExpiredLogs invocations past the flag test
    notificationSweeps,     \* deleteExpiredNotificationItems invocations
    logSweepsSkipped,       \* history: deleteExpiredLogs calls that found the flag set
    notificationSweepsSkipped, \* history: the same for the other sweep
    cronTicks,              \* history: number of firings of the hourly job
    calls,                  \* calls of the host's methods, in call order
    notificationsNextId,    \* AUTO_INCREMENT counter of the notifications table
    usersTable,             \* rows of the users table
    usersNextId             \* AUTO_INCREMENT counter of the users table

vars ==
    << isConnectionInProgress, pendingLogs, initPc, tableQueriesDone,
       readyEmitted, initCompleted, flushTimers, cronJobs, checkedOut, configTable,
       logsTable, logsNextId, now, flushes, drained, nextEntry, postCalls,
       flushTicks, deleteExpiredLogsRunning,
       deleteExpiredNotificationItemsRunning, notificationsTable, logSweeps,
       notificationSweeps, logSweepsSkipped, notificationSweepsSkipped,
       cronTicks, calls, notificationsNextId, usersTable, usersNextId >>

storeVars == << notificationsNextId, usersTable, usersNextId >>

hostVars == << calls, storeVars >>

initVars ==
    << isConnectionInProgress, initPc, tableQueriesDone, readyEmitted,
       initCompleted, flushTimers, cronJobs, configTable >>

bufferVars ==
    << pendingLogs, logsTable, logsNextId, flushes, drained, nextEntry,
       postCalls, flushTicks >>

sweepVars ==
    << now, deleteExpiredLogsRunning, deleteExpiredNotificationItemsRunning,
       notificationsTable, logSweeps, notificationSweeps, logSweepsSkipped,
       notificationSweepsSkipped, cronTicks >>

(* ------------------------------------------------------------------ *)
(* Values                                                              *)
(* ------------------------------------------------------------------ *)

\* the object literal {} that postLogs and flushLogs hand back
EmptyObject == [kind |-> "object"]

\* the promise an async flushLogs call hands back
FlushPromise(i) == [kind |-> "promise", flush |-> i]

\* a log entry as the host builds it: k numbers the entries in submission
\* order (it stands for the message), ts is its timestamp field
LogEntry(k, ts) == [n |-> k, timestamp |-> ts]

\* the entry numbers of a sequence of entries or of rows
Numbers(s) == [i \in 1..Len(s) |-> s[i].n]

\* <<a, a+1, ..., b>>
Range(a, b) == [i \in 1..(b - a + 1) |-> a + i - 1]

RECURSIVE Concat(_)
Concat(ss) == IF ss = <<>> THEN <<>> ELSE Head(ss) \o Concat(Tail(ss))

(* ------------------------------------------------------------------ *)
(* postLogs and flushLogs                                              *)
(* ------------------------------------------------------------------ *)

\* a buffer that puts new entries in front
unshift(pending, logEntries) == logEntries \o pending

\* this.pendingLogs.push(...logEntries)
push(pending, logEntries) == pending \o logEntries

\* a size test that flushes on every call
anyLength(length) == length >= 1

\* a size test that misses the exact threshold
exceededBatchSize(length) == length > batchSize

\* if (this.pendingLogs.length >= this.batchSize)
reachedBatchSize(length) == length >= batchSize

\* a postLogs that hands back the promise of the flush it started
returnFlushPromise(flushPromise) == flushPromise

\* return {}
postLogsReturn(flushPromise) == EmptyObject

\* a flusher that does not wait for the flag
neverInProgress(flag) == FALSE

\* a flusher that never sees the flag cleared
alwaysInProgress(flag) == TRUE

\* while (this.isConnectionInProgress)
connectionInProgress(flag) == flag

\* a drain by slice(), which leaves the array as it was
sliceInsteadOfSplice(pending) == [removed |-> pending, rest |-> pending]

\* this.pendingLogs.splice(0, this.pendingLogs.length): the removed elements
\* and what is left in the array
splice(pending) == [removed |-> pending, rest |-> <<>>]

\* logsToPost.map(logEntry => [new Date(logEntry.timestamp), ...]): one row of
\* values per entry, in the order of logsToPost
values(logsToPost) ==
    [i \in 1..Len(logsToPost) |->
        [n |-> logsToPost[i].n, timestamp |-> logsToPost[i].timestamp]]

\* a flusher that puts the batch back when no connection is to be had
requeued(pending, logsToPost) == logsToPost \o pending

\* if (err) return reject(err) in the getConnection callback: pendingLogs is
\* left as it is
pendingAfterConnectionError(pending, logsToPost) == pending

\* the insert callback: connection.release(); if (err) return reject(err);
\* resolve({}).  The callback takes no parameter, so err is the error of the
\* enclosing getConnection callback; insertErr is the error the driver passes
settle(err, insertErr) == IF err THEN "rejected" ELSE "resolved"

\* INSERT IGNORE INTO logs ... VALUES ?: the rows get consecutive ids in the
\* order of the value list
insertRows(table, nextId, vals) ==
    table \o [i \in 1..Len(vals) |->
                [id |-> nextId + i - 1, n |-> vals[i].n,
                 timestamp |-> vals[i].timestamp]]

\* a flushLogs invocation that has not run yet
NewFlush(by, tick, posted) ==
    [by |-> by, tick |-> tick, postedBefore |-> posted, pc |-> "start",
     waited |-> FALSE, logsToPost |-> <<>>, err |-> FALSE,
     insert |-> "none"]

\* flushLogs from the test of the while loop to its next suspension point:
\* sleep 100 ms while the flag is set; otherwise drain pendingLogs, return {}
\* when nothing was drained, else ask the pool for a connection
flushLogsRun(f, pending) ==
    IF connectionInProgress(isConnectionInProgress)
    THEN [flush |-> [f EXCEPT !.pc = "sleep", !.waited = TRUE],
          pending |-> pending, batch |-> <<>>]
    ELSE LET s == splice(pending) IN
         IF Len(s.removed) = 0
         THEN [flush |-> [f EXCEPT !.pc = "resolved"],
               pending |-> s.rest, batch |-> <<>>]
         ELSE [flush |-> [f EXCEPT !.pc = "getConnection",
                                   !.logsToPost = s.removed],
               pending |-> s.rest, batch |-> s.removed]

\* the host calls postLogs with n entries stamped with the current time
PostLogs(n) ==
    /\ LET logEntries == [i \in 1..n |-> LogEntry(nextEntry + i, now)]
           pushed == push(pendingLogs, logEntries)
           r == flushLogsRun(NewFlush("postLogs", 0, nextEntry + n), pushed)
       IN  /\ nextEntry' = nextEntry + n
           /\ IF reachedBatchSize(Len(pushed))
              THEN /\ flushes' = Append(flushes, r.flush)
                   /\ pendingLogs' = r.pending
                   /\ drained' = IF r.batch = <<>> THEN drained
                                  ELSE Append(drained, r.batch)
                   /\ postCalls' = Append(postCalls,
                          [entries |-> n,
                           lengthAfterPush |-> Len(pushed),
                           flush |-> Len(flushes) + 1,
                           flushPc |-> r.flush.pc,
                           result |-> postLogsReturn(FlushPromise(Len(flushes) + 1))])
              ELSE /\ pendingLogs' = pushed
                   /\ postCalls' = Append(postCalls,
                          [entries |-> n,
                           lengthAfterPush |-> Len(pushed),
                           flush |-> 0,
                           flushPc |-> "none",
                           result |-> postLogsReturn(EmptyObject)])
                   /\ UNCHANGED << flushes, drained >>
    /\ UNCHANGED << initVars, checkedOut, logsTable, logsNextId, flushTicks >>
    /\ UNCHANGED << sweepVars, hostVars >>

\* the interval armed by initialize fires: () => this.flushLogs()
FlushTimerTick ==
    /\ flushTimers > 0
    /\ flushTicks' = flushTicks + 1
    /\ LET r == flushLogsRun(NewFlush("timer", flushTicks + 1, nextEntry),
                             pendingLogs)
       IN  /\ flushes' = Append(flushes, r.flush)
           /\ pendingLogs' = r.pending
           /\ drained' = IF r.batch = <<>> THEN drained
                          ELSE Append(drained, r.batch)
    /\ UNCHANGED << initVars, checkedOut, logsTable, logsNextId, nextEntry,
                    postCalls >>
    /\ UNCHANGED << sweepVars, hostVars >>

\* the 100 ms sleep of a waiting flushLogs ends and the loop tests the flag
FlushWake(i) ==
    /\ flushes[i].pc = "sleep"
    /\ LET r == flushLogsRun(flushes[i], pendingLogs)
       IN  /\ flushes' = [flushes EXCEPT ![i] = r.flush]
           /\ pendingLogs' = r.pending
           /\ drained' = IF r.batch = <<>> THEN drained
                          ELSE Append(drained, r.batch)
    /\ UNCHANGED << initVars, checkedOut, logsTable, logsNextId, nextEntry,
                    postCalls, flushTicks >>
    /\ UNCHANGED << sweepVars, hostVars >>

\* pool.getConnection calls back in flushLogs: with an error the promise is
\* rejected, otherwise the INSERT is issued on the connection
FlushGetConnection(i, err) ==
    /\ flushes[i].pc = "getConnection"
    /\ IF err
       THEN /\ flushes' = [flushes EXCEPT ![i].pc = "rejected",
                                          ![i].err = TRUE]
            /\ pendingLogs' =
                  pendingAfterConnectionError(pendingLogs, flushes[i].logsToPost)
            /\ UNCHANGED checkedOut
       ELSE /\ flushes' = [flushes EXCEPT ![i].pc = "insert",
                                          ![i].insert = "issued"]
            /\ checkedOut' = checkedOut + 1
            /\ UNCHANGED pendingLogs
    /\ UNCHANGED << initVars, logsTable, logsNextId, drained, nextEntry,
                    postCalls, flushTicks >>
    /\ UNCHANGED << sweepVars, hostVars >>

\* the INSERT of a flush calls back: the rows are stored unless the statement
\* failed, the connection is released and the promise is settled
FlushInsertCallback(i, insertErr) ==
    /\ flushes[i].pc = "insert"
    /\ IF insertErr
       THEN UNCHANGED << logsTable, logsNextId >>
       ELSE /\ logsTable' = insertRows(logsTable, logsNextId,
                                       values(flushes[i].logsToPost))
            /\ logsNextId' = logsNextId + Len(flushes[i].logsToPost)
    /\ checkedOut' = checkedOut - 1
    /\ flushes' = [flushes EXCEPT
                     ![i].pc = settle(flushes[i].err, insertErr),
                     ![i].insert = IF insertErr THEN "failed" ELSE "ok"]
    /\ UNCHANGED << initVars, pendingLogs, drained, nextEntry, postCalls,
                    flushTicks >>
    /\ UNCHANGED << sweepVars, hostVars >>

(* ------------------------------------------------------------------ *)
(* The config table                                                    *)
(* ------------------------------------------------------------------ *)

\* the value of an argument the caller left out, NULL in a statement
undefined == "\\undefined"

\* results[0] of SELECT * FROM config WHERE `key` = ?: the rows with that key
\* (getConfig resolves {item: results[0]}, undefined when there is none)
configRows(table, key) == {r \in table : r.key = key}

\* an INSERT without the ON DUPLICATE KEY UPDATE clause on a table without
\* the unique key
insertOnly(table, key, value) == table \cup {[key |-> key, value |-> value]}

\* INSERT INTO config (`key`, `value`) VALUES (?, ?)
\* ON DUPLICATE KEY UPDATE `value` = VALUES(`value`)
upsert(table, key, value) ==
    IF configRows(table, key) = {}
    THEN table \cup {[key |-> key, value |-> value]}
    ELSE {IF r.key = key THEN [r EXCEPT !.value = value] ELSE r : r \in table}

\* DEFAULT_LOGS_TTL.toString()
DefaultLogsTTLString == "2592000000"

(* ------------------------------------------------------------------ *)
(* getConfig, setConfig, deleteConfig and ensureLogsTTL called by the  *)
(* host                                                                *)
(* ------------------------------------------------------------------ *)

\* resolve({ item: results[0] }): the set that holds the first row, or the
\* empty set for undefined
firstRow(rows) == IF rows = {} THEN {} ELSE {CHOOSE r \in rows : TRUE}

\* a deleteConfig that does not look at affectedRows
anyAffectedRows(affectedRows) == FALSE

\* if (results.affectedRows === 0) return reject(new Error(...))
noneAffected(affectedRows) == affectedRows = 0

\* an ensureLogsTTL that writes the default whatever it read
alwaysSeed(item) == TRUE

\* if (!configResult.item)
itemMissing(item) == item = {}

\* DELETE FROM config WHERE `key` = ?
deleteRows(table, key) == table \ configRows(table, key)

\* a call that has issued its first query.  queries is the number of
\* statements the call has handed to the pool; atCall and atSettle are the
\* config table when the call was made and when its promise settled; alone
\* tells that no other call was in flight while this one was
NewCall(op, key, value, pc) ==
    [op |-> op, key |-> key, value |-> value, pc |-> pc, item |-> {},
     error |-> "none", wrote |-> FALSE, queries |-> 1,
     atCall |-> configTable, atSettle |-> {},
     alone |-> \A j \in 1..Len(calls) :
                  calls[j].pc \in {"resolved", "rejected"}]

\* the promise of call i settles
settled(i, call, pc, item, error, table) ==
    [call EXCEPT !.pc = pc, !.item = item, !.error = error,
                 !.atSettle = table,
                 !.alone = @ /\ i = Len(calls)]

\* what the config methods leave alone
ConfigFrame ==
    UNCHANGED << isConnectionInProgress, initPc, tableQueriesDone,
                 readyEmitted, initCompleted, flushTimers, cronJobs,
                 checkedOut, bufferVars, sweepVars, storeVars >>

\* the host calls getConfig(key), setConfig(key, value), deleteConfig(key) or
\* ensureLogsTTL(): the first query is handed to the pool
ConfigCall(op, key, value) ==
    /\ calls' = Append(calls,
          NewCall(op, key, value,
                  CASE op = "getConfig" -> "select"
                    [] op = "setConfig" -> "upsert"
                    [] op = "deleteConfig" -> "delete"
                    [] op = "ensureLogsTTL" -> "select"))
    /\ UNCHANGED configTable
    /\ ConfigFrame

\* getConfig: the SELECT calls back
GetConfigCallback(i, err) ==
    /\ calls[i].op = "getConfig"
    /\ calls[i].pc = "select"
    /\ calls' = [calls EXCEPT ![i] =
          IF err
          THEN settled(i, @, "rejected", {}, "query failed", configTable)
          ELSE settled(i, @, "resolved",
                       firstRow(configRows(configTable, @.key)), "none",
                       configTable)]
    /\ UNCHANGED configTable
    /\ ConfigFrame

\* setConfig (called by the host or by ensureLogsTTL): the INSERT ... ON
\* DUPLICATE KEY UPDATE calls back, with an error when the key is NULL, and
\* getConfig(key) is called
SetConfigUpsertCallback(i, err) ==
    /\ calls[i].op \in {"setConfig", "ensureLogsTTL"}
    /\ calls[i].pc = "upsert"
    /\ IF err \/ calls[i].key = undefined
       THEN /\ calls' = [calls EXCEPT ![i] =
                  settled(i, @, "rejected", {}, "query failed", configTable)]
            /\ UNCHANGED configTable
       ELSE /\ configTable' = upsert(configTable, calls[i].key, calls[i].value)
            /\ calls' = [calls EXCEPT ![i].pc = "reread", ![i].wrote = TRUE,
                                      ![i].queries = @ + 1]
    /\ ConfigFrame

\* setConfig: the SELECT of its getConfig(key) calls back
SetConfigRereadCallback(i, err) ==
    /\ calls[i].op \in {"setConfig", "ensureLogsTTL"}
    /\ calls[i].pc = "reread"
    /\ calls' = [calls EXCEPT ![i] =
          IF err
          THEN settled(i, @, "rejected", {}, "query failed", configTable)
          ELSE settled(i, @, "resolved",
                       firstRow(configRows(configTable, @.key)), "none",
                       configTable)]
    /\ UNCHANGED configTable
    /\ ConfigFrame

\* deleteConfig: the DELETE calls back
DeleteConfigCallback(i, err) ==
    /\ calls[i].op = "deleteConfig"
    /\ calls[i].pc = "delete"
    /\ IF err
       THEN /\ calls' = [calls EXCEPT ![i] =
                  settled(i, @, "rejected", {}, "query failed", configTable)]
            /\ UNCHANGED configTable
       ELSE /\ configTable' = deleteRows(configTable, calls[i].key)
            /\ calls' = [calls EXCEPT ![i] =
                  IF noneAffected(
                        Cardinality(configRows(configTable, calls[i].key)))
                  THEN settled(i, @, "rejected", {},
                               "Configuration not found.", configTable')
                  ELSE settled(i, @, "resolved", {}, "none", configTable')]
    /\ ConfigFrame

\* ensureLogsTTL: its getConfig('logsTTL') calls back; without an item
\* setConfig('logsTTL', DEFAULT_LOGS_TTL.toString()) is called
EnsureLogsTTLCallback(i, err) ==
    /\ calls[i].op = "ensureLogsTTL"
    /\ calls[i].pc = "select"
    /\ calls' = [calls EXCEPT ![i] =
          IF err
          THEN settled(i, @, "rejected", {}, "query failed", configTable)
          ELSE IF itemMissing(firstRow(configRows(configTable, "logsTTL")))
               THEN [@ EXCEPT !.pc = "upsert", !.queries = @ + 1]
               ELSE settled(i, @, "resolved", {}, "none", configTable)]
    /\ UNCHANGED configTable
    /\ ConfigFrame

(* ------------------------------------------------------------------ *)
(* getLogs                                                             *)
(* ------------------------------------------------------------------ *)

\* if (filters.<field>): the field is present and not 0
truthy(filters, field) == field \in DOMAIN filters /\ filters[field] # 0

\* filters.limit = filters.limit || DEFAULT_LOGS_LIMIT
limitOf(filters) ==
    IF truthy(filters, "limit") THEN filters.limit ELSE DEFAULT_LOGS_LIMIT

\* one entry of whereClauses with its value
clause(column, op, value) == [column |-> column, op |-> op, value |-> value]

\* if (filters.<field>) on an array or a Date: the field is present
supplied(filters, field) == field \in DOMAIN filters

\* the hostname clause and the level_json / errsole_id group, which getLogs
\* and searchLogs build alike: hostname IN (?) for a non-empty list; one
\* parenthesised group when level_json or errsole_id is given, holding the
\* (source = ? AND level = ?) pairs joined by OR when the list is not empty,
\* and errsole_id = ?, the two joined by OR
filterClauses(filters) ==
    (IF supplied(filters, "hostnames") /\ Len(filters.hostnames) > 0
     THEN << clause("hostname", "IN", filters.hostnames) >>
     ELSE <<>>)
    \o (IF supplied(filters, "level_json") \/ truthy(filters, "errsole_id")
        THEN << clause("group", "OR",
                   (IF supplied(filters, "level_json")
                       /\ Len(filters.level_json) > 0
                    THEN << clause("source, level", "IN", filters.level_json) >>
                    ELSE <<>>)
                   \o (IF truthy(filters, "errsole_id")
                       THEN << clause("errsole_id", "=", filters.errsole_id) >>
                       ELSE <<>>)) >>
        ELSE <<>>)

\* the clauses, the ORDER BY and shouldReverse that getLogs builds from the
\* filters; lt_id is looked at first, gt_id only without it, the timestamp
\* bounds only without both
getLogsQuery(filters) ==
    LET bound ==
            IF truthy(filters, "lt_id")
            THEN [whereClauses |-> << clause("id", "<", filters.lt_id) >>,
                  orderBy |-> "id DESC", shouldReverse |-> TRUE]
            ELSE IF truthy(filters, "gt_id")
            THEN [whereClauses |-> << clause("id", ">", filters.gt_id) >>,
                  orderBy |-> "id ASC", shouldReverse |-> FALSE]
            ELSE [whereClauses |->
                      (IF supplied(filters, "lte_timestamp")
                       THEN << clause("timestamp", "<=",
                                      filters.lte_timestamp) >>
                       ELSE <<>>)
                      \o (IF supplied(filters, "gte_timestamp")
                          THEN << clause("timestamp", ">=",
                                         filters.gte_timestamp) >>
                          ELSE <<>>),
                  orderBy |->
                      IF supplied(filters, "gte_timestamp")
                      THEN "timestamp ASC, id ASC"
                      ELSE IF supplied(filters, "lte_timestamp")
                      THEN "timestamp DESC, id DESC"
                      ELSE "id DESC",
                  shouldReverse |-> ~supplied(filters, "gte_timestamp")]
    IN  [whereClauses |-> filterClauses(filters) \o bound.whereClauses,
         orderBy |-> bound.orderBy,
         shouldReverse |-> bound.shouldReverse,
         limit |-> limitOf(filters)]

\* 24 * 60 * 60 * 1000 ms
Day == 24 * 60 * 60 * 10

\* a lower bound that repeats the upper one
sameInstant(lte) == lte

\* new Date(filters.lte_timestamp.getTime() - 24 * 60 * 60 * 1000)
dayBefore(lte) == lte - Day

\* new Date(filters.gte_timestamp.getTime() + 24 * 60 * 60 * 1000)
dayAfter(gte) == gte + Day

\* the filters object as searchLogs leaves it: limit filled in, and a missing
\* timestamp bound set one day from the one supplied
searchLogsFilters(filters) ==
    LET lte == supplied(filters, "lte_timestamp")
        gte == supplied(filters, "gte_timestamp")
    IN  [f \in DOMAIN filters \cup {"limit"}
               \cup (IF lte \/ gte THEN {"lte_timestamp", "gte_timestamp"}
                     ELSE {}) |->
            CASE f = "limit" -> limitOf(filters)
              [] f = "gte_timestamp" /\ ~gte -> dayBefore(filters.lte_timestamp)
              [] f = "lte_timestamp" /\ ~lte -> dayAfter(filters.gte_timestamp)
              [] OTHER -> filters[f]]

\* the clauses, the ORDER BY and shouldReverse that searchLogs builds: the
\* full-text match, the clauses of filterClauses, then every id and timestamp
\* bound supplied, each setting the order anew, then the bound it adds
searchLogsQuery(searchTerms, filters) ==
    LET lt == truthy(filters, "lt_id")
        gt == truthy(filters, "gt_id")
        lte == supplied(filters, "lte_timestamp")
        gte == supplied(filters, "gte_timestamp")
    IN  [whereClauses |->
            (IF Len(searchTerms) > 0
             THEN << clause("message", "MATCH", searchTerms) >> ELSE <<>>)
            \o filterClauses(filters)
            \o (IF lt THEN << clause("id", "<", filters.lt_id) >> ELSE <<>>)
            \o (IF gt THEN << clause("id", ">", filters.gt_id) >> ELSE <<>>)
            \o (IF lte
                THEN << clause("timestamp", "<=", filters.lte_timestamp) >>
                ELSE <<>>)
            \o (IF gte
                THEN << clause("timestamp", ">=", filters.gte_timestamp) >>
                ELSE <<>>)
            \o (IF lte /\ ~gte
                THEN << clause("timestamp", ">=",
                               dayBefore(filters.lte_timestamp)) >>
                ELSE <<>>)
            \o (IF gte /\ ~lte
                THEN << clause("timestamp", "<=",
                               dayAfter(filters.gte_timestamp)) >>
                ELSE <<>>),
         orderBy |->
            IF gte THEN "timestamp ASC, id ASC"
            ELSE IF lte THEN "timestamp DESC, id DESC"
            ELSE IF gt THEN "id ASC"
            ELSE "id DESC",
         shouldReverse |-> IF gte THEN FALSE ELSE IF lte THEN TRUE ELSE ~gt,
         limit |-> limitOf(filters)]

\* a group whose conditions are joined by AND
everyCondition(row, conditions) ==
    \A k \in 1..Len(conditions) :
        IF conditions[k].column = "errsole_id"
        THEN row.errsole_id = conditions[k].value
        ELSE \E j \in 1..Len(conditions[k].value) :
                /\ row.source = conditions[k].value[j].source
                /\ row.level = conditions[k].value[j].level

\* ((source = ? AND level = ?) OR ...) OR errsole_id = ?
someCondition(row, conditions) ==
    \E k \in 1..Len(conditions) :
        IF conditions[k].column = "errsole_id"
        THEN row.errsole_id = conditions[k].value
        ELSE \E j \in 1..Len(conditions[k].value) :
                /\ row.source = conditions[k].value[j].source
                /\ row.level = conditions[k].value[j].level

\* a row passes one clause of the WHERE
satisfies(row, c) ==
    CASE c.op = "<" -> row[c.column] < c.value
      [] c.op = ">" -> row[c.column] > c.value
      [] c.op = "<=" -> row[c.column] <= c.value
      [] c.op = ">=" -> row[c.column] >= c.value
      [] c.op = "IN" -> \E k \in 1..Len(c.value) : row[c.column] = c.value[k]
      [] c.op = "OR" -> someCondition(row, c.value)
      [] c.op = "MATCH" ->
            \A k \in 1..Len(c.value) : c.value[k] \in row.message

\* the statement parses: no group is the empty pair of parentheses
wellFormed(query) ==
    \A k \in 1..Len(query.whereClauses) :
        query.whereClauses[k].op = "OR" =>
            Len(query.whereClauses[k].value) > 0

\* row a comes before row b under the ORDER BY
before(a, b, orderBy) ==
    CASE orderBy = "id DESC" -> a.id > b.id
      [] orderBy = "id ASC" -> a.id < b.id
      [] orderBy = "timestamp DESC, id DESC" ->
            \/ a.timestamp > b.timestamp
            \/ a.timestamp = b.timestamp /\ a.id > b.id
      [] orderBy = "timestamp ASC, id ASC" ->
            \/ a.timestamp < b.timestamp
            \/ a.timestamp = b.timestamp /\ a.id < b.id

\* the rows in the order of the ORDER BY: the k-th row has k - 1 rows before it
ordered(rows, orderBy) ==
    LET all == {rows[k] : k \in 1..Len(rows)}
        ranked == {<< Cardinality({q \in all : before(q, r, orderBy)}), r >> :
                      r \in all}
    IN  [k \in 1..Len(rows) |-> (CHOOSE p \in ranked : p[1] = k - 1)[2]]

\* SELECT ... WHERE ... ORDER BY ... LIMIT ? on the logs table
selectLogs(table, query) ==
    LET matching ==
            SelectSeq(table,
                LAMBDA r : \A k \in 1..Len(query.whereClauses) :
                              satisfies(r, query.whereClauses[k]))
        sorted == ordered(matching, query.orderBy)
    IN  IF Len(sorted) <= query.limit
        THEN sorted
        ELSE SubSeq(sorted, 1, query.limit)

\* a result handed back in the order it was fetched
asFetched(results) == results

\* results.reverse()
reverse(results) ==
    [k \in 1..Len(results) |-> results[Len(results) + 1 - k]]

\* the host calls getLogs(filters): the query is built and handed to the pool
GetLogsCall(filters) ==
    /\ calls' = Append(calls,
          [op |-> "getLogs", filters |-> filters,
           query |-> getLogsQuery(filters), pc |-> "select", items |-> <<>>,
           error |-> "none", atSettle |-> <<>>])
    /\ UNCHANGED configTable
    /\ ConfigFrame

\* getLogs: the SELECT calls back, with an error when the statement does not
\* parse
GetLogsCallback(i, err) ==
    /\ calls[i].op = "getLogs"
    /\ calls[i].pc = "select"
    /\ ~wellFormed(calls[i].query) => err
    /\ \E results \in {IF err THEN <<>>
                       ELSE selectLogs(logsTable, calls[i].query)} :
          calls' = [calls EXCEPT ![i] =
              IF err
              THEN [@ EXCEPT !.pc = "rejected", !.error = "query"]
              ELSE [@ EXCEPT !.pc = "resolved",
                             !.items = IF calls[i].query.shouldReverse
                                       THEN reverse(results)
                                       ELSE results,
                             !.atSettle = logsTable]]
    /\ UNCHANGED configTable
    /\ ConfigFrame

\* the host calls searchLogs(searchTerms, filters): the query is built, the
\* filters object is completed and the query is handed to the pool
SearchLogsCall(searchTerms, filters) ==
    /\ calls' = Append(calls,
          [op |-> "searchLogs", searchTerms |-> searchTerms,
           filters |-> filters,
           query |-> searchLogsQuery(searchTerms, filters), pc |-> "select",
           items |-> <<>>, returned |-> <<>>, error |-> "none",
           atSettle |-> <<>>])
    /\ UNCHANGED configTable
    /\ ConfigFrame

\* searchLogs: the SELECT calls back; the promise resolves with the rows and
\* the filters object
SearchLogsCallback(i, err) ==
    /\ calls[i].op = "searchLogs"
    /\ calls[i].pc = "select"
    /\ ~wellFormed(calls[i].query) => err
    /\ \E results \in {IF err THEN <<>>
                       ELSE selectLogs(logsTable, calls[i].query)} :
          calls' = [calls EXCEPT ![i] =
              IF err
              THEN [@ EXCEPT !.pc = "rejected", !.error = "query"]
              ELSE [@ EXCEPT !.pc = "resolved",
                             !.items = IF calls[i].query.shouldReverse
                                       THEN reverse(results)
                                       ELSE results,
                             !.returned = searchLogsFilters(calls[i].filters),
                             !.atSettle = logsTable]]
    /\ UNCHANGED configTable
    /\ ConfigFrame

(* ------------------------------------------------------------------ *)
(* initialize                                                          *)
(* ------------------------------------------------------------------ *)

\* a rejection that does not keep 'ready' from being emitted
rejectButReady ==
    /\ initPc' = "rejected"
    /\ readyEmitted' = readyEmitted + 1
    /\ UNCHANGED << isConnectionInProgress, tableQueriesDone, initCompleted,
                    flushTimers, cronJobs, configTable >>

\* a rejection that nevertheless clears the flag flushLogs waits on
rejectAndClear ==
    /\ initPc' = "rejected"
    /\ isConnectionInProgress' = FALSE
    /\ UNCHANGED << tableQueriesDone, readyEmitted, initCompleted,
                    flushTimers, cronJobs, configTable >>

\* a step of initialize rejects: nothing after it runs
InitReject ==
    /\ initPc' = "rejected"
    /\ UNCHANGED << isConnectionInProgress, tableQueriesDone, readyEmitted,
                    initCompleted, flushTimers, cronJobs, configTable >>

\* ensureLogsTTL has returned: this.emit('ready'), setInterval(...),
\* cron.schedule(...), one after the other with no await between them
InitFinish ==
    /\ initPc' = "done"
    /\ initCompleted' = initCompleted \o
          << "ensureLogsTTL", "ready", "setInterval", "cron.schedule" >>
    /\ readyEmitted' = readyEmitted + 1
    /\ flushTimers' = flushTimers + 1
    /\ cronJobs' = cronJobs + 1
    /\ UNCHANGED << isConnectionInProgress, tableQueriesDone >>

\* a checkConnection that clears the flag once the pool answers
flagCleared(flag) == FALSE

\* checkConnection does not assign this.isConnectionInProgress
flagAfterCheckConnection(flag) == flag

\* checkConnection: pool.getConnection calls back; the connection is released
\* at once and setBufferSize asks for the current sort_buffer_size
InitCheckConnection(err) ==
    /\ initPc = "checkConnection"
    /\ IF err
       THEN InitReject
       ELSE /\ initPc' = "getBufferSize"
            /\ initCompleted' = Append(initCompleted, "checkConnection")
            /\ isConnectionInProgress' =
                  flagAfterCheckConnection(isConnectionInProgress)
            /\ UNCHANGED << tableQueriesDone, readyEmitted, flushTimers,
                            cronJobs, configTable >>
    /\ UNCHANGED << checkedOut, bufferVars, sweepVars, hostVars >>

\* getBufferSize calls back: below the desired size the SET SESSION statement
\* is issued, otherwise setBufferSize returns and createTables issues its
\* CREATE TABLE statements
InitGetBufferSize(err, below) ==
    /\ initPc = "getBufferSize"
    /\ IF err
       THEN InitReject
       ELSE /\ initPc' = IF below THEN "setBufferSize" ELSE "tableQueries"
            /\ initCompleted' = IF below THEN initCompleted
                                ELSE Append(initCompleted, "setBufferSize")
            /\ UNCHANGED << isConnectionInProgress, tableQueriesDone,
                            readyEmitted, flushTimers, cronJobs, configTable >>
    /\ UNCHANGED << checkedOut, bufferVars, sweepVars, hostVars >>

\* SET SESSION sort_buffer_size calls back; createTables issues its
\* CREATE TABLE statements
InitSetBufferSize(err) ==
    /\ initPc = "setBufferSize"
    /\ IF err
       THEN InitReject
       ELSE /\ initPc' = "tableQueries"
            /\ initCompleted' = Append(initCompleted, "setBufferSize")
            /\ UNCHANGED << isConnectionInProgress, tableQueriesDone,
                            readyEmitted, flushTimers, cronJobs, configTable >>
    /\ UNCHANGED << checkedOut, bufferVars, sweepVars, hostVars >>

\* one CREATE TABLE statement calls back; after the last one Promise.all
\* resolves and the ALTER TABLE statement is issued
InitTableQuery(err) ==
    /\ initPc = "tableQueries"
    /\ IF err
       THEN InitReject
       ELSE /\ tableQueriesDone' = tableQueriesDone + 1
            /\ initPc' = IF tableQueriesDone + 1 = tableQueriesLength
                         THEN "alterQueries" ELSE "tableQueries"
            /\ UNCHANGED << isConnectionInProgress, readyEmitted,
                            initCompleted, flushTimers, cronJobs, configTable >>
    /\ UNCHANGED << checkedOut, bufferVars, sweepVars, hostVars >>

\* the ALTER TABLE statement calls back: createTables clears
\* isConnectionInProgress and returns, ensureLogsTTL reads the logsTTL key
InitAlterQuery(err) ==
    /\ initPc = "alterQueries"
    /\ IF err
       THEN InitReject
       ELSE /\ isConnectionInProgress' = FALSE
            /\ initPc' = "ensureGetConfig"
            /\ initCompleted' = Append(initCompleted, "createTables")
            /\ UNCHANGED << tableQueriesDone, readyEmitted, flushTimers,
                            cronJobs, configTable >>
    /\ UNCHANGED << checkedOut, bufferVars, sweepVars, hostVars >>

\* getConfig('logsTTL') of ensureLogsTTL calls back: without an item the
\* default is written by setConfig, with one ensureLogsTTL returns
InitEnsureGetConfig(err) ==
    /\ initPc = "ensureGetConfig"
    /\ IF err
       THEN InitReject
       ELSE IF configRows(configTable, "logsTTL") = {}
            THEN /\ initPc' = "ensureSetConfig"
                 /\ UNCHANGED << isConnectionInProgress, tableQueriesDone,
                                 readyEmitted, initCompleted, flushTimers,
                                 cronJobs, configTable >>
            ELSE InitFinish /\ UNCHANGED configTable
    /\ UNCHANGED << checkedOut, bufferVars, sweepVars, hostVars >>

\* the upsert of setConfig calls back: setConfig reads the key again
InitEnsureSetConfig(err) ==
    /\ initPc = "ensureSetConfig"
    /\ IF err
       THEN InitReject
       ELSE /\ configTable' = upsert(configTable, "logsTTL", DefaultLogsTTLString)
            /\ initPc' = "ensureReread"
            /\ UNCHANGED << isConnectionInProgress, tableQueriesDone,
                            readyEmitted, initCompleted, flushTimers, cronJobs >>
    /\ UNCHANGED << checkedOut, bufferVars, sweepVars, hostVars >>

\* the second read of setConfig calls back: ensureLogsTTL returns
InitEnsureReread(err) ==
    /\ initPc = "ensureReread"
    /\ IF err
       THEN InitReject
       ELSE InitFinish /\ UNCHANGED configTable
    /\ UNCHANGED << checkedOut, bufferVars, sweepVars, hostVars >>

\* the host calls initialize() on an instance whose first initialize() has
\* returned: checkConnection asks the pool for a connection again
InitializeAgain ==
    /\ initPc = "done"
    /\ initPc' = "checkConnection"
    /\ tableQueriesDone' = 0
    /\ UNCHANGED << isConnectionInProgress, readyEmitted, initCompleted,
                    flushTimers, cronJobs, configTable >>
    /\ UNCHANGED << checkedOut, bufferVars, sweepVars, hostVars >>

Initialize ==
    \E err \in BOOLEAN :
        \/ InitCheckConnection(err)
        \/ \E below \in BOOLEAN : InitGetBufferSize(err, below)
        \/ InitSetBufferSize(err)
        \/ InitTableQuery(err)
        \/ InitAlterQuery(err)
        \/ InitEnsureGetConfig(err)
        \/ InitEnsureSetConfig(err)
        \/ InitEnsureReread(err)

(* ------------------------------------------------------------------ *)
(* The retention sweeps                                                *)
(* ------------------------------------------------------------------ *)

\* Times are counted in units of 100 ms from a whole second.
Hour == 60 * 60 * 10

\* DEFAULT_LOGS_TTL of the sweeps, 30 days, in units of 100 ms
DefaultTTL == 30 * 24 * 60 * 60 * 10

\* LIMIT 1000 of the DELETE statements
deleteLimit == 1000

\* what Date.now() may have advanced by since the hourly job fired
Elapsed == {0, 7}

\* parseInt(configResult.item.value, 10) on the values the model stores:
\* milliseconds in the text, units of 100 ms in n
\* parseInt skips leading blanks, takes an optional sign and the longest run
\* of digits, and yields NaN when there is no digit
parseInt(value) ==
    CASE value = "2592000000" -> [nan |-> FALSE, n |-> DefaultTTL]
      [] value = "36000000" -> [nan |-> FALSE, n |-> 10 * Hour]
      [] value = "36000500" -> [nan |-> FALSE, n |-> 10 * Hour + 5]
      [] value = "36000000abc" -> [nan |-> FALSE, n |-> 10 * Hour]
      [] value = "-3600000" -> [nan |-> FALSE, n |-> 0 - Hour]
      [] OTHER -> [nan |-> TRUE, n |-> 0]

\* let logsTTL = DEFAULT; if (configResult.item) { parsedTTL = parseInt(...);
\* logsTTL = isNaN(parsedTTL) ? DEFAULT : parsedTTL }
resolveTTL(table) ==
    LET rows == configRows(table, "logsTTL") IN
    IF rows = {}
    THEN DefaultTTL
    ELSE LET parsedTTL == parseInt((CHOOSE r \in rows : TRUE).value) IN
         IF parsedTTL.nan THEN DefaultTTL ELSE parsedTTL.n

\* a threshold that keeps the fraction of the second
unformatted(dateNow, ttl) == dateNow - ttl

\* new Date(Date.now() - ttl).toISOString().slice(0, 19).replace('T', ' '):
\* the fraction of the second is cut off
expirationTimeOf(dateNow, ttl) == ((dateNow - ttl) \div 10) * 10

\* what getConfig('logsTTL') hands to the sweep: the value, or "absent" when
\* configResult.item is undefined
itemValue(table) ==
    LET rows == configRows(table, "logsTTL") IN
    IF rows = {} THEN "absent" ELSE (CHOOSE r \in rows : TRUE).value

\* a DELETE that also takes the rows written at the threshold
upToThreshold(table, expirationTime) ==
    SelectSeq(table, LAMBDA r : r.timestamp <= expirationTime)

\* the rows a DELETE ... WHERE timestamp < ? matches, in table order
expiredLogs(table, expirationTime) ==
    SelectSeq(table, LAMBDA r : r.timestamp < expirationTime)

\* the rows a DELETE ... WHERE created_at < ? matches, in table order
expiredNotifications(table, expirationTime) ==
    SelectSeq(table, LAMBDA r : r.created_at < expirationTime)

\* the sets of ids a DELETE ... LIMIT may remove: those of all the matching
\* rows when they are at most limit; otherwise, there being no ORDER BY, those
\* of the first limit of them in the order the server scans the table, by
\* ascending or by descending id
deletable(matching, limit) ==
    IF Len(matching) <= limit
    THEN {{matching[k].id : k \in 1..Len(matching)}}
    ELSE {{matching[k].id : k \in 1..limit},
          {matching[k].id :
              k \in (Len(matching) - limit + 1)..Len(matching)}}

\* the table without the rows whose ids are in gone
withoutRows(table, gone) == SelectSeq(table, LAMBDA r : r.id \notin gone)

\* a sweep that does not look at its flag
neverRunning(flag) == FALSE

\* if (this.deleteExpiredLogsRunning) return
logsSweepRunning(flag) == flag

\* if (this.deleteExpiredNotificationItemsRunning) return
notificationsSweepRunning(flag) == flag

\* an invocation that has set its flag and reads the logsTTL key; deletes
\* counts the DELETE statements it has issued, affected lists the
\* affectedRows of those that have called back, failedAt names the await that
\* threw, logged tells whether console.error was called and settled what
\* became of the promise of the invocation; value, ttl and dateNow are the
\* config value read, the TTL taken from it and the Date.now() it was
\* subtracted from
NewSweep ==
    [pc |-> "getConfig", expirationTime |-> 0, deletedRowCount |-> 0,
     value |-> "absent", ttl |-> 0, dateNow |-> 0,
     deletes |-> 0, affected |-> <<>>, failedAt |-> "none", logged |-> FALSE,
     settled |-> "pending"]

\* a sweep without its finally block
flagLeft(flag) == flag

\* finally { this.deleteExpired...Running = false }
sweepFinally(flag) == FALSE

\* a loop that takes one batch only
singleBatch(deletedRowCount) == FALSE

\* } while (deletedRowCount > 0)
repeatBatch(deletedRowCount) == deletedRowCount > 0

\* catch (err) { console.error(err) }: the error is logged and not thrown
\* again, so the async function returns and its promise resolves
caught(sweep, await) ==
    [sweep EXCEPT !.pc = "done", !.failedAt = await, !.logged = TRUE,
                  !.settled = "resolved"]

\* the loop is left with deletedRowCount = 0 and the function returns
returned(sweep) == [sweep EXCEPT !.pc = "done", !.settled = "resolved"]

\* a call of deleteExpiredLogs up to its first await: return when the flag is
\* set, otherwise set it and read the logsTTL key
deleteExpiredLogsCall ==
    IF logsSweepRunning(deleteExpiredLogsRunning)
    THEN /\ logSweepsSkipped' = logSweepsSkipped + 1
         /\ UNCHANGED << deleteExpiredLogsRunning, logSweeps >>
    ELSE /\ deleteExpiredLogsRunning' = TRUE
         /\ logSweeps' = Append(logSweeps, NewSweep)
         /\ UNCHANGED logSweepsSkipped

\* a call of deleteExpiredNotificationItems up to its first await
deleteExpiredNotificationItemsCall ==
    IF notificationsSweepRunning(deleteExpiredNotificationItemsRunning)
    THEN /\ notificationSweepsSkipped' = notificationSweepsSkipped + 1
         /\ UNCHANGED << deleteExpiredNotificationItemsRunning,
                         notificationSweeps >>
    ELSE /\ deleteExpiredNotificationItemsRunning' = TRUE
         /\ notificationSweeps' = Append(notificationSweeps, NewSweep)
         /\ UNCHANGED notificationSweepsSkipped

\* the job armed by cron.schedule('0 * * * *') fires and calls
\* deleteExpiredLogs() and then deleteExpiredNotificationItems()
CronTick ==
    /\ cronJobs > 0
    /\ cronTicks' = cronTicks + 1
    /\ now' = now + Hour
    /\ deleteExpiredLogsCall
    /\ deleteExpiredNotificationItemsCall
    /\ UNCHANGED << initVars, checkedOut, bufferVars, notificationsTable,
                    hostVars >>

\* what every step of a logs sweep leaves alone
LogsSweepFrame ==
    UNCHANGED << initVars, checkedOut, pendingLogs, logsNextId, flushes,
                 drained, nextEntry, postCalls, flushTicks, now,
                 deleteExpiredNotificationItemsRunning, notificationsTable,
                 notificationSweeps, logSweepsSkipped,
                 notificationSweepsSkipped, cronTicks, hostVars >>

\* getConfig('logsTTL') of a logs sweep calls back.  An error is caught and
\* logged and the finally block clears the flag; otherwise the threshold is
\* computed and the first DELETE is issued
LogsSweepGetConfig(i, err, elapsed) ==
    /\ logSweeps[i].pc = "getConfig"
    /\ IF err
       THEN /\ logSweeps' = [logSweeps EXCEPT ![i] = caught(@, "getConfig")]
            /\ deleteExpiredLogsRunning' = sweepFinally(deleteExpiredLogsRunning)
       ELSE /\ logSweeps' = [logSweeps EXCEPT
                  ![i].pc = "delete",
                  ![i].deletes = @ + 1,
                  ![i].value = itemValue(configTable),
                  ![i].ttl = resolveTTL(configTable),
                  ![i].dateNow = now + elapsed,
                  ![i].expirationTime =
                      expirationTimeOf(now + elapsed, resolveTTL(configTable))]
            /\ UNCHANGED deleteExpiredLogsRunning
    /\ UNCHANGED logsTable
    /\ LogsSweepFrame

\* a DELETE of a logs sweep calls back: on an error the loop is left through
\* catch and finally, otherwise affectedRows is kept and the 10 s sleep begins
LogsSweepDelete(i, err) ==
    /\ logSweeps[i].pc = "delete"
    /\ IF err
       THEN /\ logSweeps' = [logSweeps EXCEPT ![i] = caught(@, "delete")]
            /\ deleteExpiredLogsRunning' = sweepFinally(deleteExpiredLogsRunning)
            /\ UNCHANGED logsTable
       ELSE \E matching \in
                  {expiredLogs(logsTable, logSweeps[i].expirationTime)} :
            \E gone \in deletable(matching, deleteLimit) :
              /\ logsTable' = withoutRows(logsTable, gone)
              /\ logSweeps' = [logSweeps EXCEPT
                    ![i].pc = "sleep",
                    ![i].affected = Append(@, Cardinality(gone)),
                    ![i].deletedRowCount = Cardinality(gone)]
              /\ UNCHANGED deleteExpiredLogsRunning
    /\ LogsSweepFrame

\* the 10 s sleep of a logs sweep ends: while (deletedRowCount > 0) issues the
\* next DELETE, otherwise the finally block clears the flag
LogsSweepWake(i) ==
    /\ logSweeps[i].pc = "sleep"
    /\ IF repeatBatch(logSweeps[i].deletedRowCount)
       THEN /\ logSweeps' = [logSweeps EXCEPT ![i].pc = "delete",
                                              ![i].deletes = @ + 1]
            /\ UNCHANGED deleteExpiredLogsRunning
       ELSE /\ logSweeps' = [logSweeps EXCEPT ![i] = returned(@)]
            /\ deleteExpiredLogsRunning' = sweepFinally(deleteExpiredLogsRunning)
    /\ UNCHANGED logsTable
    /\ LogsSweepFrame

\* what every step of a notifications sweep leaves alone
NotificationsSweepFrame ==
    UNCHANGED << initVars, checkedOut, bufferVars, now,
                 deleteExpiredLogsRunning, logSweeps, logSweepsSkipped,
                 notificationSweepsSkipped, cronTicks, hostVars >>

\* getConfig('logsTTL') of a notifications sweep calls back
NotificationsSweepGetConfig(i, err, elapsed) ==
    /\ notificationSweeps[i].pc = "getConfig"
    /\ IF err
       THEN /\ notificationSweeps' =
                  [notificationSweeps EXCEPT ![i] = caught(@, "getConfig")]
            /\ deleteExpiredNotificationItemsRunning' =
                  sweepFinally(deleteExpiredNotificationItemsRunning)
       ELSE /\ notificationSweeps' = [notificationSweeps EXCEPT
                  ![i].pc = "delete",
                  ![i].deletes = @ + 1,
                  ![i].value = itemValue(configTable),
                  ![i].ttl = resolveTTL(configTable),
                  ![i].dateNow = now + elapsed,
                  ![i].expirationTime =
                      expirationTimeOf(now + elapsed, resolveTTL(configTable))]
            /\ UNCHANGED deleteExpiredNotificationItemsRunning
    /\ UNCHANGED notificationsTable
    /\ NotificationsSweepFrame

\* a DELETE of a notifications sweep calls back
NotificationsSweepDelete(i, err) ==
    /\ notificationSweeps[i].pc = "delete"
    /\ IF err
       THEN /\ notificationSweeps' =
                  [notificationSweeps EXCEPT ![i] = caught(@, "delete")]
            /\ deleteExpiredNotificationItemsRunning' =
                  sweepFinally(deleteExpiredNotificationItemsRunning)
            /\ UNCHANGED notificationsTable
       ELSE \E matching \in
                  {expiredNotifications(notificationsTable,
                                        notificationSweeps[i].expirationTime)} :
            \E gone \in deletable(matching, deleteLimit) :
              /\ notificationsTable' = withoutRows(notificationsTable, gone)
              /\ notificationSweeps' = [notificationSweeps EXCEPT
                    ![i].pc = "sleep",
                    ![i].affected = Append(@, Cardinality(gone)),
                    ![i].deletedRowCount = Cardinality(gone)]
              /\ UNCHANGED deleteExpiredNotificationItemsRunning
    /\ NotificationsSweepFrame

\* the 10 s sleep of a notifications sweep ends
NotificationsSweepWake(i) ==
    /\ notificationSweeps[i].pc = "sleep"
    /\ IF repeatBatch(notificationSweeps[i].deletedRowCount)
       THEN /\ notificationSweeps' = [notificationSweeps EXCEPT
                  ![i].pc = "delete", ![i].deletes = @ + 1]
            /\ UNCHANGED deleteExpiredNotificationItemsRunning
       ELSE /\ notificationSweeps' =
                  [notificationSweeps EXCEPT ![i] = returned(@)]
            /\ deleteExpiredNotificationItemsRunning' =
                  sweepFinally(deleteExpiredNotificationItemsRunning)
    /\ UNCHANGED notificationsTable
    /\ NotificationsSweepFrame

(* ------------------------------------------------------------------ *)
(* insertNotificationItem                                              *)
(* ------------------------------------------------------------------ *)

\* startOfDayUTC.setUTCHours(0, 0, 0, 0) on the current time
startOfDayUTC(t) == t - (t % Day)

\* endOfDayUTC.setUTCHours(23, 59, 59, 999) on the current time: the last
\* instant of the clock before the next day
endOfDayUTC(t) == startOfDayUTC(t) + Day - 1

\* the rows of a table
rowsOf(table) == {table[k] : k \in 1..Len(table)}

\* SELECT * ... WHERE hostname = ? AND hashed_message = ?
\* ORDER BY created_at DESC LIMIT 1: the values results[0] may have, no row
\* or any of the matching rows with the latest created_at
previousItems(rows, hostname, hashedMessage) ==
    LET matching == {r \in rows : /\ r.hostname = hostname
                                  /\ r.hashed_message = hashedMessage}
    IN  IF matching = {}
        THEN {{}}
        ELSE {{r} : r \in {m \in matching :
                             \A q \in matching : q.created_at <= m.created_at}}

\* a count that runs before the row of the call is in the table
committedOnly(view, own) == view

\* the rows the count of a call sees: those of its view of the table and the
\* row the call has inserted in its transaction
visibleToCount(view, own) == view \cup own

\* SELECT COUNT(*) ... WHERE hashed_message = ? AND created_at BETWEEN ? AND ?
countToday(rows, hashedMessage, from, to) ==
    Cardinality({r \in rows : /\ r.hashed_message = hashedMessage
                              /\ r.created_at >= from
                              /\ r.created_at <= to})

\* INSERT INTO notifications (errsole_id, hostname, hashed_message): id from
\* the counter, created_at and updated_at from the clock of the database
insertedNotification(id, notification, t) ==
    [id |-> id, errsole_id |-> notification.errsole_id,
     hostname |-> notification.hostname,
     hashed_message |-> notification.hashed_message,
     created_at |-> t, updated_at |-> t]

\* the table with a committed row, kept in id order
withRow(table, row) ==
    SelectSeq(table, LAMBDA r : r.id < row.id) \o << row >>
        \o SelectSeq(table, LAMBDA r : r.id > row.id)

\* a catch that throws the error of the rollback when that fails too
lastError(original, rollbackErr) ==
    IF rollbackErr THEN "rollback" ELSE original

\* connection.rollback(() => resolve()); throw err: the error of the failed
\* step is thrown whatever the rollback reports
thrown(original, rollbackErr) == original

\* a release that is only made on the way out of a successful call
releaseOnSuccess(count, failed) == IF failed THEN count ELSE count - 1

\* finally { connection.release() }
finallyRelease(count, failed) == count - 1

\* an insertNotificationItem call that waits for its connection
NewNotificationCall(notification) ==
    [op |-> "insertNotificationItem", notification |-> notification,
     pc |-> "getConnection", steps |-> <<>>, failedAt |-> "none",
     error |-> "none", previous |-> {}, count |-> 0, inserted |-> {},
     snapshot |-> <<>>, issuedAt |-> 0, startOfDay |-> 0, endOfDay |-> 0,
     settledBefore |-> {k \in 1..Len(calls) :
                          calls[k].pc \in {"resolved", "rejected"}}]

\* a step's promise rejects inside the try block: the catch issues the
\* rollback
caughtAt(call, step) ==
    [call EXCEPT !.pc = "rollback", !.failedAt = step,
                 !.steps = Append(@, "rollback")]

\* what insertNotificationItem leaves alone
NotificationFrame ==
    UNCHANGED << initVars, bufferVars, now, deleteExpiredLogsRunning,
                 deleteExpiredNotificationItemsRunning, logSweeps,
                 notificationSweeps, logSweepsSkipped,
                 notificationSweepsSkipped, cronTicks, usersTable,
                 usersNextId >>

\* the host calls insertNotificationItem(notification): a connection is asked
\* of the pool
InsertNotificationItemCall(notification) ==
    /\ calls' = Append(calls, NewNotificationCall(notification))
    /\ UNCHANGED << checkedOut, notificationsTable, notificationsNextId >>
    /\ NotificationFrame

\* pool.getConnection calls back: with an error the call rejects, before the
\* try block; otherwise beginTransaction is issued on the connection
NotificationGetConnection(i, err) ==
    /\ calls[i].op = "insertNotificationItem"
    /\ calls[i].pc = "getConnection"
    /\ IF err
       THEN /\ calls' = [calls EXCEPT ![i].pc = "rejected",
                                      ![i].failedAt = "getConnection",
                                      ![i].error = "getConnection"]
            /\ UNCHANGED checkedOut
       ELSE /\ calls' = [calls EXCEPT ![i].pc = "beginTransaction",
                                      ![i].steps = Append(@, "beginTransaction")]
            /\ checkedOut' = checkedOut + 1
    /\ UNCHANGED << notificationsTable, notificationsNextId >>
    /\ NotificationFrame

\* beginTransaction calls back: the SELECT of the previous row is issued
NotificationBegin(i, err) ==
    /\ calls[i].op = "insertNotificationItem"
    /\ calls[i].pc = "beginTransaction"
    /\ calls' = [calls EXCEPT ![i] =
          IF err THEN caughtAt(@, "beginTransaction")
          ELSE [@ EXCEPT !.pc = "fetchPrevious",
                         !.steps = Append(@, "fetchPrevious")]]
    /\ UNCHANGED << checkedOut, notificationsTable, notificationsNextId >>
    /\ NotificationFrame

\* the SELECT of the previous row calls back with results[0]: the INSERT is
\* issued
NotificationFetchPrevious(i, err) ==
    /\ calls[i].op = "insertNotificationItem"
    /\ calls[i].pc = "fetchPrevious"
    /\ IF err
       THEN calls' = [calls EXCEPT ![i] = caughtAt(@, "fetchPrevious")]
       ELSE \E item \in previousItems(rowsOf(notificationsTable),
                                      calls[i].notification.hostname,
                                      calls[i].notification.hashed_message) :
               calls' = [calls EXCEPT ![i].pc = "insert",
                                      ![i].previous = item,
                                      ![i].snapshot = notificationsTable,
                                      ![i].issuedAt = now,
                                      ![i].steps = Append(@, "insert")]
    /\ UNCHANGED << checkedOut, notificationsTable, notificationsNextId >>
    /\ NotificationFrame

\* the INSERT calls back: the row is in the transaction of the call, with
\* the CURRENT_TIMESTAMP of the moment the server ran the statement, between
\* its issue and this callback; the day is taken from the clock as it is now
\* and the COUNT is issued
NotificationInsert(i, err) ==
    /\ calls[i].op = "insertNotificationItem"
    /\ calls[i].pc = "insert"
    /\ IF err
       THEN /\ calls' = [calls EXCEPT ![i] = caughtAt(@, "insert")]
            /\ UNCHANGED notificationsNextId
       ELSE /\ \E t \in {calls[i].issuedAt, now} :
               calls' = [calls EXCEPT
                  ![i].pc = "count",
                  ![i].inserted =
                      {insertedNotification(notificationsNextId,
                                            calls[i].notification, t)},
                  ![i].startOfDay = startOfDayUTC(now),
                  ![i].endOfDay = endOfDayUTC(now),
                  ![i].steps = Append(@, "count")]
            /\ notificationsNextId' = notificationsNextId + 1
    /\ UNCHANGED << checkedOut, notificationsTable >>
    /\ NotificationFrame

\* the COUNT calls back with the rows of the day, taken from the table as it
\* was at the first read of the transaction or as it is now, whichever the
\* isolation level of the server gives; commit is issued
NotificationCount(i, err) ==
    /\ calls[i].op = "insertNotificationItem"
    /\ calls[i].pc = "count"
    /\ IF err
       THEN calls' = [calls EXCEPT ![i] = caughtAt(@, "count")]
       ELSE \E view \in {rowsOf(calls[i].snapshot), rowsOf(notificationsTable)} :
               calls' = [calls EXCEPT
                  ![i].pc = "commit",
                  ![i].count =
                      countToday(visibleToCount(view, calls[i].inserted),
                                 calls[i].notification.hashed_message,
                                 calls[i].startOfDay, calls[i].endOfDay),
                  ![i].steps = Append(@, "commit")]
    /\ UNCHANGED << checkedOut, notificationsTable, notificationsNextId >>
    /\ NotificationFrame

\* commit calls back: the row is stored, the connection is released and the
\* call resolves with the previous row and the count; with an error the catch
\* issues the rollback
NotificationCommit(i, err) ==
    /\ calls[i].op = "insertNotificationItem"
    /\ calls[i].pc = "commit"
    /\ IF err
       THEN /\ calls' = [calls EXCEPT ![i] = caughtAt(@, "commit")]
            /\ UNCHANGED << checkedOut, notificationsTable >>
       ELSE /\ calls' = [calls EXCEPT ![i].pc = "resolved",
                                      ![i].steps = Append(@, "release")]
            /\ notificationsTable' =
                  withRow(notificationsTable,
                          CHOOSE r \in calls[i].inserted : TRUE)
            /\ checkedOut' = finallyRelease(checkedOut, FALSE)
    /\ UNCHANGED notificationsNextId
    /\ NotificationFrame

\* rollback calls back, with or without an error: the row of the call is gone,
\* the error of the failed step is thrown, the connection is released and the
\* call rejects
NotificationRollback(i, err) ==
    /\ calls[i].op = "insertNotificationItem"
    /\ calls[i].pc = "rollback"
    /\ calls' = [calls EXCEPT ![i].pc = "rejected",
                              ![i].error = thrown(calls[i].failedAt, err),
                              ![i].inserted = {},
                              ![i].steps = Append(@, "release")]
    /\ checkedOut' = finallyRelease(checkedOut, TRUE)
    /\ UNCHANGED << notificationsTable, notificationsNextId >>
    /\ NotificationFrame

\* time passes
ClockTick(elapsed) ==
    /\ now' = now + elapsed
    /\ UNCHANGED << initVars, checkedOut, bufferVars, deleteExpiredLogsRunning,
                    deleteExpiredNotificationItemsRunning, notificationsTable,
                    logSweeps, notificationSweeps, logSweepsSkipped,
                    notificationSweepsSkipped, cronTicks, hostVars >>

(* ------------------------------------------------------------------ *)
(* deleteAllLogs                                                       *)
(* ------------------------------------------------------------------ *)

\* a statement that leaves the rows where they are
untouched(table) == table

\* TRUNCATE TABLE logs
truncated(table) == <<>>

\* what deleteAllLogs leaves alone
DeleteAllLogsFrame ==
    UNCHANGED << initVars, checkedOut, pendingLogs, flushes, drained,
                 nextEntry, postCalls, flushTicks, sweepVars, storeVars >>

\* the host calls deleteAllLogs(): the TRUNCATE is handed to the pool
DeleteAllLogsCall ==
    /\ calls' = Append(calls,
          [op |-> "deleteAllLogs", pc |-> "truncate", error |-> "none",
           queries |-> 1, buffered |-> <<>>, stored |-> <<>>,
           flushesBefore |-> 0])
    /\ UNCHANGED << logsTable, logsNextId >>
    /\ DeleteAllLogsFrame

\* the TRUNCATE calls back: the table is empty and its AUTO_INCREMENT counter
\* starts again, and the call resolves with {}; with an error it rejects.
\* buffered, stored and flushesBefore keep pendingLogs, the rows and the
\* number of flushLogs invocations of that moment
DeleteAllLogsCallback(i, err) ==
    /\ calls[i].op = "deleteAllLogs"
    /\ calls[i].pc = "truncate"
    /\ IF err
       THEN /\ calls' = [calls EXCEPT ![i].pc = "rejected",
                                      ![i].error = "query failed"]
            /\ UNCHANGED << logsTable, logsNextId >>
       ELSE /\ calls' = [calls EXCEPT ![i].pc = "resolved",
                                      ![i].buffered = pendingLogs,
                                      ![i].stored = logsTable,
                                      ![i].flushesBefore = Len(flushes)]
            /\ logsTable' = truncated(logsTable)
            /\ logsNextId' = 1
    /\ DeleteAllLogsFrame

(* ------------------------------------------------------------------ *)
(* The users table and the methods on it                               *)
(* ------------------------------------------------------------------ *)

\* !email, !password, !key: the argument was left out or is the empty string
falsy(value) == value = undefined \/ value = ""

\* !id on a number: left out (0 stands for it) or 0
falsyId(id) == id = 0

\* bcrypt.hash(password, rounds): the stored text is not the password
hash(password) == << "bcrypt", password >>

\* bcrypt.compare(password, hashed_password)
compare(password, hashedPassword) == hashedPassword = hash(password)

\* SELECT * FROM users WHERE email = ?
usersByEmail(table, email) == {u \in table : u.email = email}

\* SELECT id, name, email, role, and results[0] after delete
\* user.hashed_password
public(user) ==
    [id |-> user.id, name |-> user.name, email |-> user.email,
     role |-> user.role]

\* a users table without the UNIQUE key on email
neverDuplicate(table, email) == FALSE

\* err.code === 'ER_DUP_ENTRY': the UNIQUE key on email refuses the row
duplicateEntry(table, email) == usersByEmail(table, email) # {}

\* restrictedFields.forEach(field => delete updates[field])
withoutRestricted(updates) ==
    [f \in DOMAIN updates \ {"id", "hashed_password"} |-> updates[f]]

\* UPDATE users SET <key> = ?, ... on one row
applyUpdates(user, updates) ==
    [f \in DOMAIN user |-> IF f \in DOMAIN updates THEN updates[f] ELSE user[f]]

\* a call on the users table: args are the arguments, queries the number of
\* statements the call has handed to the pool, user the row a callback keeps,
\* before and after the table around the INSERT of createUser
NewUserCall(op, args, pc, error, queries) ==
    [op |-> op, args |-> args, pc |-> pc, error |-> error, item |-> {},
     queries |-> queries, user |-> {}, before |-> {}, after |-> {}]

\* the promise of a call on the users table settles
userSettled(call, pc, item, error) ==
    [call EXCEPT !.pc = pc, !.item = item, !.error = error]

\* a method that validates its arguments: it throws before the query with
\* the message, or hands the query to the pool
validated(op, args, invalid, message, pc) ==
    IF invalid
    THEN NewUserCall(op, args, "rejected", message, 0)
    ELSE NewUserCall(op, args, pc, "none", 1)

\* what the methods on the users table leave alone
UserFrame ==
    UNCHANGED << initVars, checkedOut, bufferVars, sweepVars,
                 notificationsNextId >>

\* the host calls createUser(user): bcrypt.hash is awaited
CreateUserCall(user) ==
    /\ calls' = Append(calls, NewUserCall("createUser", user, "hash", "none", 0))
    /\ UNCHANGED << usersTable, usersNextId >>
    /\ UserFrame

\* createUser: the hash is there and the INSERT is handed to the pool
CreateUserHashed(i) ==
    /\ calls[i].op = "createUser"
    /\ calls[i].pc = "hash"
    /\ calls' = [calls EXCEPT ![i].pc = "insert", ![i].queries = @ + 1]
    /\ UNCHANGED << usersTable, usersNextId >>
    /\ UserFrame

\* createUser: the INSERT calls back, with ER_DUP_ENTRY when the email is
\* taken, with another error, or with the id of the new row
CreateUserCallback(i, err) ==
    /\ calls[i].op = "createUser"
    /\ calls[i].pc = "insert"
    /\ IF err
       THEN /\ calls' = [calls EXCEPT ![i] =
                  userSettled([@ EXCEPT !.before = usersTable,
                                        !.after = usersTable],
                              "rejected", {}, "query failed")]
            /\ UNCHANGED << usersTable, usersNextId >>
       ELSE IF duplicateEntry(usersTable, calls[i].args.email)
       THEN /\ calls' = [calls EXCEPT ![i] =
                  userSettled([@ EXCEPT !.before = usersTable,
                                        !.after = usersTable],
                              "rejected", {},
                              "A user with the provided email already exists.")]
            /\ UNCHANGED << usersTable, usersNextId >>
       ELSE \E row \in {[id |-> usersNextId, name |-> calls[i].args.name,
                         email |-> calls[i].args.email,
                         hashed_password |-> hash(calls[i].args.password),
                         role |-> calls[i].args.role]} :
               /\ usersTable' = usersTable \cup {row}
               /\ usersNextId' = usersNextId + 1
               /\ calls' = [calls EXCEPT ![i] =
                     userSettled([@ EXCEPT !.before = usersTable,
                                           !.after = usersTable'],
                                 "resolved", {public(row)}, "none")]
    /\ UserFrame

\* the host calls getUserByEmail(email)
GetUserByEmailCall(email) ==
    /\ calls' = Append(calls,
          validated("getUserByEmail", [email |-> email], falsy(email),
                    "Email is required.", "select"))
    /\ UNCHANGED << usersTable, usersNextId >>
    /\ UserFrame

\* the SELECT of getUserByEmail calls back (that of the call the host made,
\* or that of the call updateUserByEmail makes at its end)
selected(call, err, table) ==
    IF err THEN userSettled(call, "rejected", {}, "query failed")
    ELSE IF usersByEmail(table, call.args.email) = {}
    THEN userSettled(call, "rejected", {}, "User not found.")
    ELSE userSettled(call, "resolved",
                     {public(u) : u \in usersByEmail(table, call.args.email)},
                     "none")

GetUserByEmailCallback(i, err) ==
    /\ calls[i].op = "getUserByEmail"
    /\ calls[i].pc = "select"
    /\ calls' = [calls EXCEPT ![i] = selected(@, err, usersTable)]
    /\ UNCHANGED << usersTable, usersNextId >>
    /\ UserFrame

\* the host calls verifyUser(email, password)
VerifyUserCall(email, password) ==
    /\ calls' = Append(calls,
          validated("verifyUser", [email |-> email, password |-> password],
                    falsy(email) \/ falsy(password),
                    "Both email and password are required for verification.",
                    "select"))
    /\ UNCHANGED << usersTable, usersNextId >>
    /\ UserFrame

\* the SELECT of verifyUser or of updatePassword calls back: without a row
\* the call rejects, with one bcrypt.compare is awaited
UserSelectCallback(i, err) ==
    /\ calls[i].op \in {"verifyUser", "updatePassword"}
    /\ calls[i].pc = "select"
    /\ calls' = [calls EXCEPT ![i] =
          IF err THEN userSettled(@, "rejected", {}, "query failed")
          ELSE IF usersByEmail(usersTable, @.args.email) = {}
          THEN userSettled(@, "rejected", {}, "User not found.")
          ELSE [@ EXCEPT !.pc = "compare",
                         !.user = usersByEmail(usersTable,
                                               calls[i].args.email)]]
    /\ UNCHANGED << usersTable, usersNextId >>
    /\ UserFrame

\* verifyUser: bcrypt.compare has answered
VerifyUserCompared(i) ==
    /\ calls[i].op = "verifyUser"
    /\ calls[i].pc = "compare"
    /\ calls' = [calls EXCEPT ![i] =
          IF \E u \in @.user : compare(@.args.password, u.hashed_password)
          THEN userSettled(@, "resolved", {public(u) : u \in @.user}, "none")
          ELSE userSettled(@, "rejected", {}, "Incorrect password.")]
    /\ UNCHANGED << usersTable, usersNextId >>
    /\ UserFrame

\* the host calls updateUserByEmail(email, updates), given holding updates
\* when the caller passed it: the restricted fields are dropped after the
\* test for an empty object, and the UPDATE is handed to the pool
UpdateUserByEmailCall(email, given) ==
    /\ calls' = Append(calls,
          IF falsy(email)
          THEN NewUserCall("updateUserByEmail",
                           [email |-> email, given |-> given],
                           "rejected", "Email is required.", 0)
          ELSE IF ~supplied(given, "updates")
          THEN NewUserCall("updateUserByEmail",
                           [email |-> email, given |-> given],
                           "rejected", "No updates provided.", 0)
          ELSE validated("updateUserByEmail",
                         [email |-> email,
                          given |-> [updates |->
                                        withoutRestricted(given.updates)]],
                         DOMAIN given.updates = {},
                         "No updates provided.", "update"))
    /\ UNCHANGED << usersTable, usersNextId >>
    /\ UserFrame

\* updateUserByEmail: the UPDATE calls back, with an error when the SET
\* clause is empty or the new email is taken; with affectedRows 0 the call
\* rejects, otherwise getUserByEmail(email) is called
UpdateUserByEmailCallback(i, err) ==
    /\ calls[i].op = "updateUserByEmail"
    /\ calls[i].pc = "update"
    /\ LET email == calls[i].args.email
           updates == calls[i].args.given.updates
           matched == usersByEmail(usersTable, email)
           others == usersTable \ matched
       IN  IF err \/ DOMAIN updates = {}
           THEN /\ calls' = [calls EXCEPT ![i] =
                      userSettled(@, "rejected", {}, "query failed")]
                /\ UNCHANGED usersTable
           ELSE IF /\ "email" \in DOMAIN updates
                   /\ matched # {}
                   /\ duplicateEntry(others, updates.email)
           THEN /\ calls' = [calls EXCEPT ![i] =
                      userSettled(@, "rejected", {}, "ER_DUP_ENTRY")]
                /\ UNCHANGED usersTable
           ELSE IF matched = {}
           THEN /\ calls' = [calls EXCEPT ![i] =
                      userSettled(@, "rejected", {}, "No updates applied.")]
                /\ UNCHANGED usersTable
           ELSE /\ usersTable' =
                      others \cup {applyUpdates(u, updates) : u \in matched}
                /\ calls' = [calls EXCEPT ![i].pc = "reread",
                                          ![i].queries = @ + 1]
    /\ UNCHANGED usersNextId
    /\ UserFrame

\* updateUserByEmail: the SELECT of its getUserByEmail(email) calls back
UpdateUserByEmailReread(i, err) ==
    /\ calls[i].op = "updateUserByEmail"
    /\ calls[i].pc = "reread"
    /\ calls' = [calls EXCEPT ![i] = selected(@, err, usersTable)]
    /\ UNCHANGED << usersTable, usersNextId >>
    /\ UserFrame

\* the host calls updatePassword(email, currentPassword, newPassword)
UpdatePasswordCall(email, currentPassword, newPassword) ==
    /\ calls' = Append(calls,
          validated("updatePassword",
                    [email |-> email, password |-> currentPassword,
                     newPassword |-> newPassword],
                    falsy(email) \/ falsy(currentPassword) \/ falsy(newPassword),
                    "Email, current password, and new password are required.",
                    "select"))
    /\ UNCHANGED << usersTable, usersNextId >>
    /\ UserFrame

\* updatePassword: bcrypt.compare has answered; with the right password
\* bcrypt.hash is awaited
UpdatePasswordCompared(i) ==
    /\ calls[i].op = "updatePassword"
    /\ calls[i].pc = "compare"
    /\ calls' = [calls EXCEPT ![i] =
          IF \E u \in @.user : compare(@.args.password, u.hashed_password)
          THEN [@ EXCEPT !.pc = "hash"]
          ELSE userSettled(@, "rejected", {}, "Current password is incorrect.")]
    /\ UNCHANGED << usersTable, usersNextId >>
    /\ UserFrame

\* updatePassword: the hash is there and the UPDATE is handed to the pool
UpdatePasswordHashed(i) ==
    /\ calls[i].op = "updatePassword"
    /\ calls[i].pc = "hash"
    /\ calls' = [calls EXCEPT ![i].pc = "update", ![i].queries = @ + 1]
    /\ UNCHANGED << usersTable, usersNextId >>
    /\ UserFrame

\* updatePassword: the UPDATE calls back
UpdatePasswordCallback(i, err) ==
    /\ calls[i].op = "updatePassword"
    /\ calls[i].pc = "update"
    /\ LET matched == usersByEmail(usersTable, calls[i].args.email)
       IN  IF err
           THEN /\ calls' = [calls EXCEPT ![i] =
                      userSettled(@, "rejected", {}, "query failed")]
                /\ UNCHANGED usersTable
           ELSE IF matched = {}
           THEN /\ calls' = [calls EXCEPT ![i] =
                      userSettled(@, "rejected", {}, "Password update failed.")]
                /\ UNCHANGED usersTable
           ELSE /\ usersTable' = (usersTable \ matched) \cup
                      {[u EXCEPT !.hashed_password =
                                    hash(calls[i].args.newPassword)] :
                          u \in matched}
                /\ calls' = [calls EXCEPT ![i] =
                      userSettled(@, "resolved",
                                  {public(u) : u \in @.user}, "none")]
    /\ UNCHANGED usersNextId
    /\ UserFrame

\* the host calls deleteUser(id)
DeleteUserCall(id) ==
    /\ calls' = Append(calls,
          validated("deleteUser", [id |-> id], falsyId(id),
                    "User ID is required.", "delete"))
    /\ UNCHANGED << usersTable, usersNextId >>
    /\ UserFrame

\* deleteUser: the DELETE calls back
DeleteUserCallback(i, err) ==
    /\ calls[i].op = "deleteUser"
    /\ calls[i].pc = "delete"
    /\ LET matched == {u \in usersTable : u.id = calls[i].args.id}
       IN  IF err
           THEN /\ calls' = [calls EXCEPT ![i] =
                      userSettled(@, "rejected", {}, "query failed")]
                /\ UNCHANGED usersTable
           ELSE /\ usersTable' = usersTable \ matched
                /\ calls' = [calls EXCEPT ![i] =
                      IF noneAffected(Cardinality(matched))
                      THEN userSettled(@, "rejected", {}, "User not found.")
                      ELSE userSettled(@, "resolved", {}, "none")]
    /\ UNCHANGED usersNextId
    /\ UserFrame

(* ------------------------------------------------------------------ *)
(* The buffer and the flusher, from construction                       *)
(* ------------------------------------------------------------------ *)

\* the state the constructor leaves: the flag set, the buffer empty and
\* initialize() waiting for the connection of checkConnection
Constructed ==
    /\ isConnectionInProgress = TRUE
    /\ pendingLogs = <<>>
    /\ initPc = "checkConnection"
    /\ tableQueriesDone = 0
    /\ readyEmitted = 0
    /\ initCompleted = <<>>
    /\ flushTimers = 0
    /\ cronJobs = 0
    /\ checkedOut = 0
    /\ flushes = <<>>
    /\ drained = <<>>
    /\ nextEntry = 0
    /\ postCalls = <<>>
    /\ flushTicks = 0
    /\ deleteExpiredLogsRunning = FALSE
    /\ deleteExpiredNotificationItemsRunning = FALSE
    /\ logSweeps = <<>>
    /\ notificationSweeps = <<>>
    /\ logSweepsSkipped = 0
    /\ notificationSweepsSkipped = 0
    /\ cronTicks = 0
    /\ calls = <<>>
    /\ usersTable = {}
    /\ usersNextId = 1

Init ==
    /\ Constructed
    /\ configTable \in {{}, {[key |-> "logsTTL", value |-> DefaultLogsTTLString]}}
    /\ logsTable = <<>>
    /\ logsNextId = 1
    /\ notificationsTable = <<>>
    /\ notificationsNextId = Len(notificationsTable) + 1
    /\ now = 0

\* the steps of the flushLogs invocations in flight
Flush ==
    \/ \E i \in 1..Len(flushes) : FlushWake(i)
    \/ \E i \in 1..Len(flushes), err \in BOOLEAN : FlushGetConnection(i, err)
    \/ \E i \in 1..Len(flushes), insertErr \in BOOLEAN :
          FlushInsertCallback(i, insertErr)

Next ==
    \/ Initialize
    \/ Len(postCalls) < MaxPostCalls /\ \E n \in PostSizes : PostLogs(n)
    \/ flushTicks < MaxFlushTicks /\ FlushTimerTick
    \/ Flush

Spec == Init /\ [][Next]_vars

(* ------------------------------------------------------------------ *)
(* The retention sweeps, from a finished initialize                    *)
(* ------------------------------------------------------------------ *)

\* a row of the logs table written before the run begins
OldLog(id, ts) == [id |-> id, n |-> 0, timestamp |-> ts]

\* a row of the notifications table
Notification(id, ts) ==
    [id |-> id, errsole_id |-> id, hostname |-> "h", hashed_message |-> "m",
     created_at |-> ts, updated_at |-> ts]

\* initialize has returned and nothing else has run, whatever the users
\* table holds
InitializedHost ==
    /\ isConnectionInProgress = FALSE
    /\ pendingLogs = <<>>
    /\ initPc = "done"
    /\ tableQueriesDone = tableQueriesLength
    /\ readyEmitted = 1
    /\ initCompleted = << "checkConnection", "setBufferSize", "createTables",
                          "ensureLogsTTL", "ready", "setInterval",
                          "cron.schedule" >>
    /\ flushTimers = 1
    /\ cronJobs = 1
    /\ checkedOut = 0
    /\ flushes = <<>>
    /\ drained = <<>>
    /\ nextEntry = 0
    /\ postCalls = <<>>
    /\ flushTicks = 0
    /\ deleteExpiredLogsRunning = FALSE
    /\ deleteExpiredNotificationItemsRunning = FALSE
    /\ logSweeps = <<>>
    /\ notificationSweeps = <<>>
    /\ logSweepsSkipped = 0
    /\ notificationSweepsSkipped = 0
    /\ cronTicks = 0
    /\ calls = <<>>
    /\ now = 0

\* initialize has returned on a database without users
Initialized ==
    /\ InitializedHost
    /\ usersTable = {}
    /\ usersNextId = 1

\* the values the logsTTL key may have been given through setConfig
TTLValues == {"36000500", "36000000abc", "-3600000", "abc"}

\* initialize has returned on a database that already holds rows: one older
\* than 30 days, one older than 10 hours, one written in the last second
InitSweep ==
    /\ Initialized
    /\ configTable \in
          {{}} \cup {{[key |-> "logsTTL", value |-> v]} : v \in TTLValues}
    /\ logsTable = << OldLog(1, 0 - DefaultTTL - Hour),
                      OldLog(2, 0 - 10 * Hour), OldLog(3, 0 - 3) >>
    /\ logsNextId = 4
    /\ notificationsTable = << Notification(1, 0 - DefaultTTL - Hour),
                               Notification(2, 0 - 3) >>
    /\ notificationsNextId = Len(notificationsTable) + 1

\* the steps of the sweeps in flight
Sweep ==
    \/ \E i \in 1..Len(logSweeps), err \in BOOLEAN, elapsed \in Elapsed :
          LogsSweepGetConfig(i, err, elapsed)
    \/ \E i \in 1..Len(logSweeps), err \in BOOLEAN : LogsSweepDelete(i, err)
    \/ \E i \in 1..Len(logSweeps) : LogsSweepWake(i)
    \/ \E i \in 1..Len(notificationSweeps), err \in BOOLEAN, elapsed \in Elapsed :
          NotificationsSweepGetConfig(i, err, elapsed)
    \/ \E i \in 1..Len(notificationSweeps), err \in BOOLEAN :
          NotificationsSweepDelete(i, err)
    \/ \E i \in 1..Len(notificationSweeps) : NotificationsSweepWake(i)

NextSweep ==
    \/ cronTicks < MaxCronTicks /\ CronTick
    \/ Sweep

SpecSweep == InitSweep /\ [][NextSweep]_vars

(* ------------------------------------------------------------------ *)
(* The retention sweeps on rows written around the threshold           *)
(* ------------------------------------------------------------------ *)

\* initialize has returned on tables that hold a row written 100 ms before
\* the instant that lies 30 days before the first firing of the hourly job,
\* a row written at that instant, and in the logs table one written 300 ms
\* after it
InitThreshold ==
    /\ Initialized
    /\ configTable \in
          {{}} \cup {{[key |-> "logsTTL", value |-> v]} : v \in TTLValues}
    /\ logsTable = << OldLog(1, Hour - DefaultTTL - 1),
                      OldLog(2, Hour - DefaultTTL),
                      OldLog(3, Hour - DefaultTTL + 3) >>
    /\ logsNextId = 4
    /\ notificationsTable = << Notification(1, Hour - DefaultTTL - 1),
                               Notification(2, Hour - DefaultTTL) >>
    /\ notificationsNextId = Len(notificationsTable) + 1

SpecThreshold == InitThreshold /\ [][NextSweep]_vars

(* ------------------------------------------------------------------ *)
(* The retention sweeps on more rows than one DELETE takes             *)
(* ------------------------------------------------------------------ *)

\* the logs table holds one row more than LIMIT that is older than 30 days
\* and one written in the last second
InitBatches ==
    /\ Initialized
    /\ configTable = {[key |-> "logsTTL", value |-> DefaultLogsTTLString]}
    /\ logsTable = [i \in 1..(deleteLimit + 2) |->
                       OldLog(i, IF i <= deleteLimit + 1
                                 THEN 0 - DefaultTTL - Hour ELSE 0 - 3)]
    /\ logsNextId = deleteLimit + 3
    /\ notificationsTable = << Notification(1, 0 - DefaultTTL - Hour),
                               Notification(2, 0 - 3) >>
    /\ notificationsNextId = Len(notificationsTable) + 1

\* the steps of the logs sweeps in flight when the database reports no error
LogsSweepStep ==
    \/ \E i \in 1..Len(logSweeps), elapsed \in Elapsed :
          LogsSweepGetConfig(i, FALSE, elapsed)
    \/ \E i \in 1..Len(logSweeps) : LogsSweepDelete(i, FALSE)
    \/ \E i \in 1..Len(logSweeps) : LogsSweepWake(i)

\* the same for the notifications sweeps
NotificationsSweepStep ==
    \/ \E i \in 1..Len(notificationSweeps), elapsed \in Elapsed :
          NotificationsSweepGetConfig(i, FALSE, elapsed)
    \/ \E i \in 1..Len(notificationSweeps) : NotificationsSweepDelete(i, FALSE)
    \/ \E i \in 1..Len(notificationSweeps) : NotificationsSweepWake(i)

(* ------------------------------------------------------------------ *)
(* The config methods, from a finished initialize                      *)
(* ------------------------------------------------------------------ *)

\* keys and values of the host's calls
ConfigKeys == {"logsTTL"}
ConfigValues == {"v1", "v2"}

\* initialize has returned and ensureLogsTTL has left the logsTTL row
InitConfig ==
    /\ Initialized
    /\ configTable = {[key |-> "logsTTL", value |-> DefaultLogsTTLString]}
    /\ logsTable = <<>>
    /\ logsNextId = 1
    /\ notificationsTable = <<>>
    /\ notificationsNextId = Len(notificationsTable) + 1

\* the calls the host may make
HostConfigCall ==
    \/ \E key \in ConfigKeys : ConfigCall("getConfig", key, "none")
    \/ \E key \in ConfigKeys, value \in ConfigValues :
          ConfigCall("setConfig", key, value)
    \/ \E key \in ConfigKeys : ConfigCall("deleteConfig", key, "none")
    \/ ConfigCall("ensureLogsTTL", "logsTTL", DefaultLogsTTLString)

\* the callbacks of the calls in flight
ConfigCallback ==
    \/ \E i \in 1..Len(calls), err \in BOOLEAN : GetConfigCallback(i, err)
    \/ \E i \in 1..Len(calls), err \in BOOLEAN :
          SetConfigUpsertCallback(i, err)
    \/ \E i \in 1..Len(calls), err \in BOOLEAN :
          SetConfigRereadCallback(i, err)
    \/ \E i \in 1..Len(calls), err \in BOOLEAN : DeleteConfigCallback(i, err)
    \/ \E i \in 1..Len(calls), err \in BOOLEAN :
          EnsureLogsTTLCallback(i, err)

NextConfig ==
    \/ Len(calls) < MaxConfigCalls /\ HostConfigCall
    \/ ConfigCallback

SpecConfig == InitConfig /\ [][NextConfig]_vars

NextBatches ==
    \/ cronTicks < MaxBatchCronTicks /\ CronTick
    \/ LogsSweepStep
    \/ NotificationsSweepStep

\* the event loop runs every callback and every timer that is due
SpecBatches ==
    /\ InitBatches
    /\ [][NextBatches]_vars
    /\ WF_vars(LogsSweepStep)
    /\ WF_vars(NotificationsSweepStep)

(* ------------------------------------------------------------------ *)
(* Startup with the buffer, the flusher and the sweeps together        *)
(* ------------------------------------------------------------------ *)

NextStartup ==
    \/ Initialize
    \/ Len(postCalls) < MaxStartupPostCalls /\ \E n \in PostSizes : PostLogs(n)
    \/ flushTicks < MaxStartupFlushTicks /\ FlushTimerTick
    \/ Flush
    \/ cronTicks < MaxStartupCronTicks /\ CronTick
    \/ Sweep

SpecStartup == Init /\ [][NextStartup]_vars

(* ------------------------------------------------------------------ *)
(* initialize called again by the host                                 *)
(* ------------------------------------------------------------------ *)

NextReinit ==
    \/ Initialize
    \/ readyEmitted <= MaxInitializeAgain /\ InitializeAgain
    \/ flushTicks < MaxReinitFlushTicks /\ FlushTimerTick
    \/ cronTicks < MaxReinitCronTicks /\ CronTick
    \/ Sweep

SpecReinit == Init /\ [][NextReinit]_vars

(* ------------------------------------------------------------------ *)
(* getLogs on a stored set of logs                                     *)
(* ------------------------------------------------------------------ *)

\* the filters the host passes: an id bound with or without a limit, both id
\* bounds, a timestamp bound, or nothing
LogFilters ==
    {[lt_id |-> n, limit |-> l] : n \in 0..(MaxLogId + 1), l \in 0..MaxLimit}
    \cup {[gt_id |-> n, limit |-> l] : n \in 0..(MaxLogId + 1), l \in 0..MaxLimit}
    \cup {[lt_id |-> n] : n \in 0..(MaxLogId + 1)}
    \cup {[gt_id |-> n] : n \in 0..(MaxLogId + 1)}
    \cup {[lt_id |-> n, gt_id |-> 1, limit |-> 1] : n \in {0, MaxLogId}}
    \cup {[lte_timestamp |-> 0 - Hour, limit |-> 1],
          [gte_timestamp |-> 0 - Hour, limit |-> 1],
          [limit |-> 1]}

\* initialize has returned on a logs table that holds any of the rows
\* 1..MaxLogId, two rows to the hour
InitGetLogs ==
    /\ Initialized
    /\ configTable = {[key |-> "logsTTL", value |-> DefaultLogsTTLString]}
    /\ \E ids \in SUBSET (1..MaxLogId) :
          logsTable =
              SelectSeq([k \in 1..MaxLogId |->
                            OldLog(k, 0 - Hour * ((MaxLogId + 1 - k) \div 2))],
                        LAMBDA r : r.id \in ids)
    /\ logsNextId = MaxLogId + 1
    /\ notificationsTable = <<>>
    /\ notificationsNextId = Len(notificationsTable) + 1

NextGetLogs ==
    \/ Len(calls) < MaxGetLogsCalls /\ \E filters \in LogFilters :
          GetLogsCall(filters)
    \/ \E i \in 1..Len(calls), err \in BOOLEAN : GetLogsCallback(i, err)

SpecGetLogs == InitGetLogs /\ [][NextGetLogs]_vars

(* ------------------------------------------------------------------ *)
(* getLogs and searchLogs with every kind of filter                    *)
(* ------------------------------------------------------------------ *)

\* a stored row with every column the filters look at: two hostnames, three
\* (source, level) pairs, errsole_id 0 standing for NULL, a message of one or
\* two words, and timestamps that do not grow with the id (even ids are days
\* old, odd ids one hour old)
StoredLog(k) ==
    [id |-> k, n |-> 0,
     timestamp |-> 0 - Hour * (IF k % 2 = 0 THEN 15 * k ELSE 1),
     hostname |-> IF k % 2 = 1 THEN "h1" ELSE "h2",
     source |-> IF k % 3 = 2 THEN "errsole" ELSE "console",
     level |-> IF k % 3 = 0 THEN "info" ELSE "error",
     errsole_id |->
         IF k % 2 = 1 THEN (k + 1) \div 2 ELSE IF k % 4 = 0 THEN 1 ELSE 0,
     message |-> IF k % 3 = 0 THEN {"disk"} ELSE {"disk", "full"}]

\* the fields of both filter objects
Merge(f, g) ==
    [x \in DOMAIN f \cup DOMAIN g |-> IF x \in DOMAIN f THEN f[x] ELSE g[x]]

\* the id bounds, the timestamp bounds, the level_json / errsole_id groups, the
\* hostname lists and the limits the host may supply
IdBounds ==
    {<<>>, [lt_id |-> 0], [lt_id |-> MaxLogId - 1], [gt_id |-> 0],
     [gt_id |-> 2], [lt_id |-> MaxLogId, gt_id |-> 1],
     [lt_id |-> 2, gt_id |-> 3]}

TimeBounds ==
    {<<>>, [lte_timestamp |-> 0 - Hour], [gte_timestamp |-> 0 - 40 * Hour],
     [lte_timestamp |-> 0 - Hour, gte_timestamp |-> 0 - 40 * Hour]}

LevelGroups ==
    {<<>>,
     [level_json |-> <<>>],
     [level_json |-> << [source |-> "console", level |-> "error"],
                        [source |-> "errsole", level |-> "error"] >>],
     [errsole_id |-> 1],
     [level_json |-> << [source |-> "console", level |-> "error"] >>,
      errsole_id |-> 2],
     [level_json |-> <<>>, errsole_id |-> 1]}

HostLists == {<<>>, [hostnames |-> <<>>], [hostnames |-> << "h1" >>]}

Limits == {<<>>} \cup {[limit |-> l] : l \in 1..MaxLimit}

SearchFilters ==
    {Merge(Merge(Merge(Merge(a, b), c), d), e) :
        a \in IdBounds, b \in TimeBounds, c \in LevelGroups, d \in HostLists,
        e \in Limits}

\* the search terms the host may pass
SearchTerms == {<<>>, << "full" >>}

\* initialize has returned on a logs table that holds any of the rows
\* StoredLog(1) .. StoredLog(MaxLogId)
InitSearch ==
    /\ Initialized
    /\ configTable = {[key |-> "logsTTL", value |-> DefaultLogsTTLString]}
    /\ \E ids \in SUBSET (1..MaxLogId) :
          logsTable = SelectSeq([k \in 1..MaxLogId |-> StoredLog(k)],
                                LAMBDA r : r.id \in ids)
    /\ logsNextId = MaxLogId + 1
    /\ notificationsTable = <<>>
    /\ notificationsNextId = Len(notificationsTable) + 1

\* the host reads the stored logs once, by getLogs or by searchLogs
NextSearch ==
    \/ calls = <<>> /\ \E filters \in SearchFilters : GetLogsCall(filters)
    \/ calls = <<>> /\ \E searchTerms \in SearchTerms, filters \in SearchFilters :
          SearchLogsCall(searchTerms, filters)
    \/ \E i \in 1..Len(calls), err \in BOOLEAN : GetLogsCallback(i, err)
    \/ \E i \in 1..Len(calls), err \in BOOLEAN : SearchLogsCallback(i, err)

SpecSearch == InitSearch /\ [][NextSearch]_vars

(* ------------------------------------------------------------------ *)
(* Posting, flushing and reading back                                  *)
(* ------------------------------------------------------------------ *)

\* getLogs() and getLogs({limit: l})
ReadBackFilters == {<<>>} \cup {[limit |-> l] : l \in 0..MaxLimit}

\* initialize has returned on an empty logs table or on one that holds one
\* row more than the default limit
InitReadBack ==
    /\ Initialized
    /\ configTable = {[key |-> "logsTTL", value |-> DefaultLogsTTLString]}
    /\ \E stored \in {0, DEFAULT_LOGS_LIMIT + 1} :
          /\ logsTable = [k \in 1..stored |-> OldLog(k, 0 - Hour)]
          /\ logsNextId = stored + 1
    /\ notificationsTable = <<>>
    /\ notificationsNextId = Len(notificationsTable) + 1

NextReadBack ==
    \/ Len(postCalls) < MaxReadBackPosts /\ \E n \in {1, 3} : PostLogs(n)
    \/ flushTicks < MaxReadBackFlushTicks /\ FlushTimerTick
    \/ \E i \in 1..Len(flushes), err \in BOOLEAN : FlushGetConnection(i, err)
    \/ \E i \in 1..Len(flushes), insertErr \in BOOLEAN :
          FlushInsertCallback(i, insertErr)
    \/ Len(calls) < MaxReadBackCalls /\ \E filters \in ReadBackFilters :
          GetLogsCall(filters)
    \/ \E i \in 1..Len(calls), err \in BOOLEAN : GetLogsCallback(i, err)

SpecReadBack == InitReadBack /\ [][NextReadBack]_vars

(* ------------------------------------------------------------------ *)
(* insertNotificationItem, from a finished initialize                  *)
(* ------------------------------------------------------------------ *)

\* the notifications the host may pass
NotificationInputs ==
    {[errsole_id |-> 7, hostname |-> h, hashed_message |-> "m"] :
        h \in {"h", "h2"}}

\* the clock moves by half a day at a time
ClockSteps == {Day \div 2}

\* a row an earlier run of the host has stored, at the instant the model
\* starts from
EarlierNotification ==
    insertedNotification(1, [errsole_id |-> 7, hostname |-> "h",
                             hashed_message |-> "m"], 0)

\* initialize has returned, the clock showing midnight UTC, on a notifications
\* table that is empty or holds one row
InitNotifications ==
    /\ Initialized
    /\ configTable = {[key |-> "logsTTL", value |-> DefaultLogsTTLString]}
    /\ logsTable = <<>>
    /\ logsNextId = 1
    /\ notificationsTable \in {<<>>, << EarlierNotification >>}
    /\ notificationsNextId = Len(notificationsTable) + 1

\* the callbacks of the insertNotificationItem calls in flight
NotificationStep ==
    \/ \E i \in 1..Len(calls), err \in BOOLEAN : NotificationGetConnection(i, err)
    \/ \E i \in 1..Len(calls), err \in BOOLEAN : NotificationBegin(i, err)
    \/ \E i \in 1..Len(calls), err \in BOOLEAN : NotificationFetchPrevious(i, err)
    \/ \E i \in 1..Len(calls), err \in BOOLEAN : NotificationInsert(i, err)
    \/ \E i \in 1..Len(calls), err \in BOOLEAN : NotificationCount(i, err)
    \/ \E i \in 1..Len(calls), err \in BOOLEAN : NotificationCommit(i, err)
    \/ \E i \in 1..Len(calls), err \in BOOLEAN : NotificationRollback(i, err)

NextNotifications ==
    \/ Len(calls) < MaxNotificationCalls /\ \E notification \in NotificationInputs :
          InsertNotificationItemCall(notification)
    \/ NotificationStep
    \/ now < MaxClockTicks * (Day \div 2) /\ \E elapsed \in ClockSteps :
          ClockTick(elapsed)

SpecNotifications == InitNotifications /\ [][NextNotifications]_vars

(* ------------------------------------------------------------------ *)
(* Notifications and flushes on one pool                               *)
(* ------------------------------------------------------------------ *)

NextPool ==
    \/ Len(calls) < MaxPoolNotificationCalls /\ \E notification \in NotificationInputs :
          InsertNotificationItemCall(notification)
    \/ NotificationStep
    \/ Len(postCalls) < MaxPoolPostCalls /\ PostLogs(1)
    \/ flushTicks < MaxPoolFlushTicks /\ FlushTimerTick
    \/ \E i \in 1..Len(flushes), err \in BOOLEAN : FlushGetConnection(i, err)
    \/ \E i \in 1..Len(flushes), insertErr \in BOOLEAN :
          FlushInsertCallback(i, insertErr)

SpecPool == InitNotifications /\ [][NextPool]_vars

(* ------------------------------------------------------------------ *)
(* The methods on the users table and the config methods, from a       *)
(* finished initialize                                                 *)
(* ------------------------------------------------------------------ *)

Emails == {"a@x.com", "b@x.com"}

\* the user an earlier run of the host has stored
EarlierUser ==
    [id |-> 1, name |-> "a", email |-> "a@x.com",
     hashed_password |-> hash("p"), role |-> "admin"]

\* the users the host may pass to createUser
NewUsers ==
    {[name |-> n, email |-> e, password |-> "p", role |-> "admin"] :
        n \in {"a", "b"}, e \in Emails}

\* the email, password and id arguments the host may pass
EmailArgs == Emails \cup {undefined}
PasswordArgs == {"p", "q", undefined}
IdArgs == 0..2

\* the second argument of updateUserByEmail: left out, empty, a name, only a
\* restricted field, or an email another user may have
UpdateArgs ==
    {<<>>, [updates |-> <<>>], [updates |-> [name |-> "z"]],
     [updates |-> [id |-> 9]], [updates |-> [email |-> "b@x.com"]]}

\* the arguments of updatePassword
UpdatePasswordArgs ==
    {<< "a@x.com", "p", "n" >>, << "a@x.com", "q", "n" >>,
     << undefined, "p", "n" >>, << "a@x.com", undefined, "n" >>,
     << "a@x.com", "p", undefined >>, << "b@x.com", "p", "n" >>}

\* initialize has returned on a users table that is empty or holds one user
InitUsers ==
    /\ InitializedHost
    /\ configTable = {[key |-> "logsTTL", value |-> DefaultLogsTTLString]}
    /\ logsTable = <<>>
    /\ logsNextId = 1
    /\ notificationsTable = <<>>
    /\ notificationsNextId = Len(notificationsTable) + 1
    /\ usersTable \in {{}, {EarlierUser}}
    /\ usersNextId = Cardinality(usersTable) + 1

\* the host calls a method
HostUserCall ==
    \/ \E user \in NewUsers : CreateUserCall(user)
    \/ \E email \in EmailArgs : GetUserByEmailCall(email)
    \/ \E email \in {"a@x.com", undefined}, password \in PasswordArgs :
          VerifyUserCall(email, password)
    \/ \E email \in {"a@x.com", undefined}, given \in UpdateArgs :
          UpdateUserByEmailCall(email, given)
    \/ \E a \in UpdatePasswordArgs : UpdatePasswordCall(a[1], a[2], a[3])
    \/ \E id \in IdArgs : DeleteUserCall(id)
    \/ \E op \in {"getConfig", "setConfig", "deleteConfig"},
          key \in {"logsTTL", undefined} : ConfigCall(op, key, "v1")

NextUsers ==
    \/ Len(calls) < MaxUserCalls /\ HostUserCall
    \/ \E i \in 1..Len(calls) : CreateUserHashed(i)
    \/ \E i \in 1..Len(calls), err \in BOOLEAN : CreateUserCallback(i, err)
    \/ \E i \in 1..Len(calls), err \in BOOLEAN : GetUserByEmailCallback(i, err)
    \/ \E i \in 1..Len(calls), err \in BOOLEAN : UserSelectCallback(i, err)
    \/ \E i \in 1..Len(calls) : VerifyUserCompared(i)
    \/ \E i \in 1..Len(calls), err \in BOOLEAN : UpdateUserByEmailCallback(i, err)
    \/ \E i \in 1..Len(calls), err \in BOOLEAN : UpdateUserByEmailReread(i, err)
    \/ \E i \in 1..Len(calls) : UpdatePasswordCompared(i)
    \/ \E i \in 1..Len(calls) : UpdatePasswordHashed(i)
    \/ \E i \in 1..Len(calls), err \in BOOLEAN : UpdatePasswordCallback(i, err)
    \/ \E i \in 1..Len(calls), err \in BOOLEAN : DeleteUserCallback(i, err)
    \/ \E i \in 1..Len(calls), err \in BOOLEAN : GetConfigCallback(i, err)
    \/ \E i \in 1..Len(calls), err \in BOOLEAN : SetConfigUpsertCallback(i, err)
    \/ \E i \in 1..Len(calls), err \in BOOLEAN : SetConfigRereadCallback(i, err)
    \/ \E i \in 1..Len(calls), err \in BOOLEAN : DeleteConfigCallback(i, err)

SpecUsers == InitUsers /\ [][NextUsers]_vars

(* ------------------------------------------------------------------ *)
(* Posting, flushing and clearing the logs table                       *)
(* ------------------------------------------------------------------ *)

\* initialize has returned on a database that holds two logs, a user and a
\* notification
InitClear ==
    /\ InitializedHost
    /\ configTable = {[key |-> "logsTTL", value |-> DefaultLogsTTLString]}
    /\ logsTable = << OldLog(1, 0 - Hour), OldLog(2, 0 - Hour) >>
    /\ logsNextId = 3
    /\ notificationsTable = << EarlierNotification >>
    /\ notificationsNextId = Len(notificationsTable) + 1
    /\ usersTable = {EarlierUser}
    /\ usersNextId = 2

NextClear ==
    \/ Len(postCalls) < MaxClearPostCalls /\ \E n \in {1, batchSize} : PostLogs(n)
    \/ flushTicks < MaxClearFlushTicks /\ FlushTimerTick
    \/ \E i \in 1..Len(flushes), err \in BOOLEAN : FlushGetConnection(i, err)
    \/ \E i \in 1..Len(flushes), insertErr \in BOOLEAN :
          FlushInsertCallback(i, insertErr)
    \/ Len(calls) < MaxDeleteAllLogsCalls /\ DeleteAllLogsCall
    \/ \E i \in 1..Len(calls), err \in BOOLEAN : DeleteAllLogsCallback(i, err)

SpecClear == InitClear /\ [][NextClear]_vars

(* ------------------------------------------------------------------ *)
(* Posting while the flush timer keeps firing                          *)
(* ------------------------------------------------------------------ *)

\* the interval fires, as long as the model has firings left
TimerKeepsFiring == flushTicks < MaxTimerFlushTicks /\ FlushTimerTick

\* the host posts only while a firing of the interval is still to come
NextTimer ==
    \/ /\ flushTicks < MaxTimerFlushTicks
       /\ Len(postCalls) < MaxTimerPostCalls
       /\ \E n \in {1, 2, batchSize} : PostLogs(n)
    \/ TimerKeepsFiring
    \/ \E i \in 1..Len(flushes), err \in BOOLEAN : FlushGetConnection(i, err)
    \/ \E i \in 1..Len(flushes), insertErr \in BOOLEAN :
          FlushInsertCallback(i, insertErr)

\* setInterval fires the timer again and again
SpecTimer == InitConfig /\ [][NextTimer]_vars /\ WF_vars(TimerKeepsFiring)

(* ------------------------------------------------------------------ *)
(* Properties                                                          *)
(* ------------------------------------------------------------------ *)

\* the flushLogs invocations that are past the while loop
Proceeded(f) == f.pc \in {"getConnection", "insert", "resolved", "rejected"}

\* the steps of initialize that have returned
Completed(step) == \E i \in 1..Len(initCompleted) : initCompleted[i] = step

InsertIssued == \E i \in 1..Len(flushes) : flushes[i].insert # "none"

DeleteIssued ==
    \/ \E i \in 1..Len(logSweeps) : logSweeps[i].deletes > 0
    \/ \E i \in 1..Len(notificationSweeps) : notificationSweeps[i].deletes > 0

\* the entry numbers found in a sequence of entries or of rows
EntrySet(s) == {s[i].n : i \in 1..Len(s)}

\* the number of entries in a sequence of batches
RECURSIVE Held(_)
Held(batches) ==
    IF batches = <<>> THEN 0 ELSE Len(Head(batches)) + Held(Tail(batches))

\* C1: whatever the interleaving of postLogs calls and flushLogs invocations,
\* every entry handed to postLogs is in exactly one place, pendingLogs or one
\* drained batch: the places hold as many entries as were posted and each
\* posted entry is in one of them, so none is dropped and none is there twice.
C1_EveryEntryInOnePlace ==
    /\ Len(pendingLogs) + Held(drained) = nextEntry
    /\ EntrySet(pendingLogs)
         \cup UNION {EntrySet(drained[b]) : b \in 1..Len(drained)}
       = 1..nextEntry

\* two flushes in flight at once, each with a batch of its own
C1_Witness ==
    \E i, j \in 1..Len(flushes) :
        /\ i < j
        /\ flushes[i].pc \in {"getConnection", "insert"}
        /\ flushes[j].pc \in {"getConnection", "insert"}

\* C2: while fewer than batchSize entries have been posted and the timer has
\* not fired, no INSERT has been issued; and once the flush of the first
\* timer firing, started with fewer than batchSize entries posted, has had its
\* INSERT succeed, the entries posted before that firing are in the logs table
\* exactly once and in submission order.
C2_BelowBatchSizeWaitsForTimer ==
    /\ (nextEntry < batchSize /\ flushTicks = 0) => ~InsertIssued
    /\ \A i \in 1..Len(flushes) :
          (/\ flushes[i].by = "timer"
           /\ flushes[i].tick = 1
           /\ flushes[i].postedBefore < batchSize
           /\ flushes[i].insert = "ok")
          => SelectSeq(Numbers(logsTable),
                       LAMBDA k : k <= flushes[i].postedBefore)
               = Range(1, flushes[i].postedBefore)

\* two calls below the threshold, then the first timer firing stores them
C2_Witness ==
    \E i \in 1..Len(flushes) :
        /\ flushes[i].by = "timer"
        /\ flushes[i].tick = 1
        /\ flushes[i].postedBefore > 1
        /\ flushes[i].postedBefore < batchSize
        /\ flushes[i].insert = "ok"
        /\ Len(postCalls) > 1

\* C3: a postLogs call invokes flushLogs exactly when pendingLogs, after the
\* push, holds batchSize entries or more (entries of earlier calls included),
\* and the flush it invoked is still unsettled when postLogs returns.
C3_FlushExactlyAtBatchSize ==
    \A c \in 1..Len(postCalls) :
        /\ (postCalls[c].flush # 0) <=> (postCalls[c].lengthAfterPush >= batchSize)
        /\ postCalls[c].flush # 0 =>
              postCalls[c].flushPc \in {"sleep", "getConnection"}

\* a call of fewer than batchSize entries that reached the threshold with the
\* entries left by an earlier call
C3_Witness ==
    \E c \in 1..Len(postCalls) :
        /\ postCalls[c].flush # 0
        /\ postCalls[c].entries < batchSize
        /\ postCalls[c].flushPc = "getConnection"

\* C4: the drained batches, in drain order, followed by pendingLogs list the
\* entries in submission order, and the rows a flush has stored are its batch
\* in the order of the batch, on consecutive rows.
C4_SubmissionOrderKept ==
    /\ Numbers(Concat(drained)) \o Numbers(pendingLogs) = Range(1, nextEntry)
    /\ \A i \in 1..Len(flushes) :
          flushes[i].insert = "ok" =>
              \E from \in 1..Len(logsTable) :
                  /\ logsTable[from].n = flushes[i].logsToPost[1].n
                  /\ SubSeq(logsTable, from,
                            from + Len(flushes[i].logsToPost) - 1)
                       = insertRows(<<>>, logsTable[from].id,
                                    values(flushes[i].logsToPost))

\* two batches drained, the second stored, entries still pending
C4_Witness ==
    /\ Len(drained) > 1
    /\ \E i \in 1..Len(flushes) :
          flushes[i].insert = "ok" /\ Len(flushes[i].logsToPost) > 1

\* C5: while isConnectionInProgress is set no flushLogs invocation is past
\* its while loop: nothing has been drained, no connection has been asked for
\* and no INSERT has been issued.
C5_NoFlushWhileConnectionInProgress ==
    isConnectionInProgress =>
        /\ drained = <<>>
        /\ \A i \in 1..Len(flushes) :
              /\ ~Proceeded(flushes[i])
              /\ flushes[i].logsToPost = <<>>
              /\ flushes[i].insert = "none"

\* a flush that slept on the flag and has issued its INSERT since
C5_Witness ==
    \E i \in 1..Len(flushes) : flushes[i].waited /\ flushes[i].insert = "issued"

\* C6 as stated: no INSERT of log entries and no retention DELETE is issued
\* before createTables and ensureLogsTTL have both returned.
C6_NoWriteBeforeInitialized ==
    (InsertIssued \/ DeleteIssued) =>
        (Completed("createTables") /\ Completed("ensureLogsTTL"))

\* C6 as amended: no INSERT of log entries is issued before createTables has
\* returned, and no retention DELETE is issued before createTables and
\* ensureLogsTTL have both returned.
C6_NoWriteBeforeTablesNoSweepBeforeTTL ==
    /\ InsertIssued => Completed("createTables")
    /\ DeleteIssued => (Completed("createTables") /\ Completed("ensureLogsTTL"))

\* a flush that slept through createTables has issued its INSERT and a sweep
\* has issued a DELETE
C6_Witness ==
    /\ \E i \in 1..Len(flushes) : flushes[i].waited /\ flushes[i].insert # "none"
    /\ DeleteIssued

C8_ConnectionErrorDropsBatch ==
    \A i \in 1..Len(flushes) :
        flushes[i].err =>
            /\ flushes[i].pc = "rejected"
            /\ flushes[i].logsToPost # <<>>
            /\ EntrySet(flushes[i].logsToPost) \cap EntrySet(pendingLogs) = {}
            /\ EntrySet(flushes[i].logsToPost) \cap EntrySet(logsTable) = {}

\* a rejected flush, a later flush that stored its batch, entries pending
C8_Witness ==
    \E i, j \in 1..Len(flushes) :
        /\ i < j
        /\ flushes[i].err
        /\ flushes[j].insert = "ok"

\* C9: a flush whose INSERT failed does not report success: its promise is
\* rejected.  (flushLogs emits no event and writes no log on that path.)
C9_FailedInsertIsReported ==
    \A i \in 1..Len(flushes) :
        flushes[i].insert = "failed" => flushes[i].pc = "rejected"

\* C10: of each sweep at most one invocation is past the test of its flag,
\* and a call that finds the flag set leaves the flag, the list of
\* invocations, the config table and the swept table as they are.
C10_OneSweepOfEachType ==
    [][/\ Cardinality({i \in 1..Len(logSweeps') :
                          logSweeps'[i].pc # "done"}) <= 1
       /\ Cardinality({i \in 1..Len(notificationSweeps') :
                          notificationSweeps'[i].pc # "done"}) <= 1
       /\ (cronTicks' # cronTicks /\ deleteExpiredLogsRunning) =>
             /\ deleteExpiredLogsRunning'
             /\ logSweeps' = logSweeps
             /\ logSweepsSkipped' = logSweepsSkipped + 1
             /\ logsTable' = logsTable
             /\ configTable' = configTable
       /\ (cronTicks' # cronTicks /\ deleteExpiredNotificationItemsRunning) =>
             /\ deleteExpiredNotificationItemsRunning'
             /\ notificationSweeps' = notificationSweeps
             /\ notificationSweepsSkipped' = notificationSweepsSkipped + 1
             /\ notificationsTable' = notificationsTable
             /\ configTable' = configTable
      ]_vars

\* both sweeps were called again while their first invocations were sleeping
\* between two DELETE statements
C10_Witness ==
    /\ logSweepsSkipped > 0
    /\ notificationSweepsSkipped > 0
    /\ \E i \in 1..Len(logSweeps) :
          logSweeps[i].pc = "sleep" /\ logSweeps[i].deletedRowCount > 0
    /\ \E i \in 1..Len(notificationSweeps) :
          notificationSweeps[i].pc # "done"

\* C11: a sweep invocation that ends, whether it returned, failed at
\* getConfig or failed at a DELETE, clears its running flag in the step that
\* ends it and has its promise resolved; one that failed has logged the error,
\* and its last step issued no DELETE and removed no row.
C11_SweepAlwaysClearsItsFlag ==
    [][/\ \A i \in 1..Len(logSweeps) :
             (logSweeps[i].pc # "done" /\ logSweeps'[i].pc = "done") =>
                /\ ~deleteExpiredLogsRunning'
                /\ logSweeps'[i].settled = "resolved"
                /\ logSweeps'[i].failedAt # "none" =>
                      /\ logSweeps'[i].logged
                      /\ logSweeps'[i].deletes = logSweeps[i].deletes
                      /\ logsTable' = logsTable
       /\ \A i \in 1..Len(notificationSweeps) :
             (notificationSweeps[i].pc # "done"
                 /\ notificationSweeps'[i].pc = "done") =>
                /\ ~deleteExpiredNotificationItemsRunning'
                /\ notificationSweeps'[i].settled = "resolved"
                /\ notificationSweeps'[i].failedAt # "none" =>
                      /\ notificationSweeps'[i].logged
                      /\ notificationSweeps'[i].deletes
                            = notificationSweeps[i].deletes
                      /\ notificationsTable' = notificationsTable
      ]_vars

\* a logs sweep that failed at a DELETE after a batch that removed rows, one
\* that returned, and a notifications sweep that failed at getConfig, all
\* with their flags cleared
C11_Witness ==
    /\ ~deleteExpiredLogsRunning
    /\ ~deleteExpiredNotificationItemsRunning
    /\ \E i \in 1..Len(logSweeps) :
          /\ logSweeps[i].failedAt = "delete"
          /\ logSweeps[i].affected # <<>>
    /\ \E i \in 1..Len(logSweeps) :
          logSweeps[i].pc = "done" /\ logSweeps[i].failedAt = "none"
    /\ \E i \in 1..Len(notificationSweeps) :
          notificationSweeps[i].failedAt = "getConfig"

\* what the batches of one sweep invocation look like: none removed more
\* than LIMIT rows, none but the last removed 0 rows, and an invocation that
\* returned had a last batch of 0 rows
BatchesInOrder(sweep) ==
    /\ \A k \in 1..Len(sweep.affected) :
          /\ sweep.affected[k] <= deleteLimit
          /\ k < Len(sweep.affected) => sweep.affected[k] > 0
    /\ (sweep.pc = "done" /\ sweep.failedAt = "none") =>
          /\ sweep.affected # <<>>
          /\ sweep.affected[Len(sweep.affected)] = 0

\* C12: when the database reports no error, every DELETE of a sweep removes
\* at most 1000 rows, a sweep goes on after every batch that removed rows and
\* returns after the first that removed none, and every sweep invocation
\* eventually returns with no row older than its threshold left in its table.
C12_SweepDeletesEveryExpiredRow ==
    /\ [](/\ \A i \in 1..Len(logSweeps) : BatchesInOrder(logSweeps[i])
          /\ \A i \in 1..Len(notificationSweeps) :
                BatchesInOrder(notificationSweeps[i]))
    /\ \A i \in 1..MaxBatchCronTicks :
          (Len(logSweeps) >= i) ~>
              (/\ Len(logSweeps) >= i
               /\ logSweeps[i].pc = "done"
               /\ expiredLogs(logsTable, logSweeps[i].expirationTime) = <<>>)
    /\ \A i \in 1..MaxBatchCronTicks :
          (Len(notificationSweeps) >= i) ~>
              (/\ Len(notificationSweeps) >= i
               /\ notificationSweeps[i].pc = "done"
               /\ expiredNotifications(notificationsTable,
                      notificationSweeps[i].expirationTime) = <<>>)

\* a logs sweep that took a full batch, then the one row left, then an empty
\* batch, and returned
C12_Witness ==
    \E i \in 1..Len(logSweeps) :
        /\ logSweeps[i].pc = "done"
        /\ logSweeps[i].affected = << deleteLimit, 1, 0 >>
        /\ Len(logsTable) = 1

\* the sweep invocations that have read the logsTTL key
Resolved(sweep) == sweep.pc # "getConfig" /\ sweep.failedAt # "getConfig"

\* C13: every sweep that has read the logsTTL key uses the number the value
\* spells when the value is a non-negative integer, and 30 days when the key
\* is absent or the value is anything else.
C13_DefaultUnlessNonNegativeInteger ==
    /\ \A i \in 1..Len(logSweeps) :
          Resolved(logSweeps[i]) =>
              logSweeps[i].ttl =
                  (IF logSweeps[i].value \in {"2592000000", "36000000", "36000500"}
                   THEN parseInt(logSweeps[i].value).n ELSE DefaultTTL)
    /\ \A i \in 1..Len(notificationSweeps) :
          Resolved(notificationSweeps[i]) =>
              notificationSweeps[i].ttl =
                  (IF notificationSweeps[i].value
                         \in {"2592000000", "36000000", "36000500"}
                   THEN parseInt(notificationSweeps[i].value).n ELSE DefaultTTL)

RanAlone(call) == call.alone /\ call.pc = "resolved"

\* C15: the config table never holds two rows with one key; and when
\* setConfig(k, v1), setConfig(k, v2) and getConfig(k) are called one after
\* the other, each after the one before has resolved, getConfig resolves with
\* the item {key: k, value: v2} and the table holds one row for k.
C15_SetConfigOverwrites ==
    /\ \A r1 \in configTable, r2 \in configTable : r1.key = r2.key => r1 = r2
    /\ \A i \in 1..Len(calls) :
          (/\ i + 2 <= Len(calls)
           /\ calls[i].op = "setConfig" /\ RanAlone(calls[i])
           /\ calls[i + 1].op = "setConfig" /\ RanAlone(calls[i + 1])
           /\ calls[i + 2].op = "getConfig" /\ RanAlone(calls[i + 2])
           /\ calls[i + 1].key = calls[i].key
           /\ calls[i + 2].key = calls[i].key)
          => /\ calls[i + 2].item =
                  {[key |-> calls[i].key, value |-> calls[i + 1].value]}
             /\ Cardinality(configRows(calls[i + 2].atSettle, calls[i].key)) = 1

\* setConfig with v1, then setConfig with v2 on the same key, then getConfig
C15_Witness ==
    /\ Len(calls) = 3
    /\ calls[1].op = "setConfig" /\ RanAlone(calls[1]) /\ calls[1].value = "v1"
    /\ calls[2].op = "setConfig" /\ RanAlone(calls[2]) /\ calls[2].value = "v2"
    /\ calls[3].op = "getConfig" /\ RanAlone(calls[3])
    /\ calls[1].atCall # {}

\* C16: when the DELETE of deleteConfig finds no row with the key, the call
\* rejects with 'Configuration not found.' and the config table stays as it
\* is; when the SELECT of getConfig finds no row, the call resolves with no
\* item.
C16_MissingKeyRejectsDeleteResolvesGet ==
    [][\A i \in 1..Len(calls) :
          (/\ calls[i].op \in {"deleteConfig", "getConfig"}
           /\ calls[i].pc \in {"delete", "select"}
           /\ calls'[i].pc \in {"resolved", "rejected"}
           /\ calls'[i].error # "query failed"
           /\ configRows(configTable, calls[i].key) = {})
          => /\ configTable' = configTable
             /\ calls[i].op = "deleteConfig" =>
                   /\ calls'[i].pc = "rejected"
                   /\ calls'[i].error = "Configuration not found."
             /\ calls[i].op = "getConfig" =>
                   /\ calls'[i].pc = "resolved"
                   /\ calls'[i].item = {}
      ]_vars

\* a deleteConfig that found no row and a getConfig that found none
C16_Witness ==
    /\ \E i \in 1..Len(calls) :
          /\ calls[i].op = "deleteConfig"
          /\ calls[i].error = "Configuration not found."
          /\ calls[i].atSettle = {}
    /\ \E i \in 1..Len(calls) :
          /\ calls[i].op = "getConfig"
          /\ calls[i].pc = "resolved"
          /\ calls[i].item = {}

\* C17: an ensureLogsTTL whose read finds no logsTTL row goes on to write, and
\* its write leaves the row logsTTL = "2592000000"; one whose read finds a
\* row, whatever its value, resolves without a write; no other step of it
\* changes the config table; and of two calls made one after the other, each
\* running alone, the second leaves the config table as the first left it.
C17_EnsureLogsTTLSeedsOnce ==
    [][/\ \A i \in 1..Len(calls) :
             calls[i].op = "ensureLogsTTL" =>
                /\ (/\ calls[i].pc = "select"
                    /\ calls'[i].pc # "select"
                    /\ calls'[i].error # "query failed") =>
                      /\ configTable' = configTable
                      /\ IF configRows(configTable, "logsTTL") = {}
                         THEN calls'[i].pc = "upsert"
                         ELSE calls'[i].pc = "resolved" /\ ~calls'[i].wrote
                /\ (calls[i].pc = "upsert" /\ calls'[i].pc = "reread") =>
                      configRows(configTable', "logsTTL") =
                          {[key |-> "logsTTL", value |-> "2592000000"]}
                /\ (calls[i].pc = "reread" /\ calls'[i].pc # "reread") =>
                      configTable' = configTable
       /\ \A j \in 2..Len(calls') :
             (/\ calls'[j - 1].op = "ensureLogsTTL" /\ RanAlone(calls'[j - 1])
              /\ calls'[j].op = "ensureLogsTTL" /\ RanAlone(calls'[j])) =>
                calls'[j].atSettle = calls'[j - 1].atSettle
      ]_vars

\* the logsTTL row is deleted and ensureLogsTTL is called twice in a row:
\* the first call wrote the default and the second wrote nothing
C17_Witness ==
    /\ Len(calls) = 3
    /\ calls[1].op = "deleteConfig" /\ RanAlone(calls[1])
    /\ calls[2].op = "ensureLogsTTL" /\ RanAlone(calls[2]) /\ calls[2].wrote
    /\ calls[3].op = "ensureLogsTTL" /\ RanAlone(calls[3]) /\ ~calls[3].wrote
    /\ calls[2].atCall = {}
    /\ calls[3].atSettle = {[key |-> "logsTTL", value |-> "2592000000"]}

\* the order of the steps of initialize
StartupOrder ==
    << "checkConnection", "setBufferSize", "createTables", "ensureLogsTTL",
       "ready", "setInterval", "cron.schedule" >>

\* C18: the steps initialize has completed are a prefix of checkConnection,
\* setBufferSize, createTables, ensureLogsTTL, 'ready', setInterval,
\* cron.schedule; 'ready' has been emitted, the interval armed and the hourly
\* job armed exactly when that step is in the prefix; and when a step has
\* rejected, 'ready' has not been emitted and neither timer is armed.
C18_ReadyAfterFourStepsThenTimers ==
    /\ Len(initCompleted) <= Len(StartupOrder)
    /\ initCompleted = SubSeq(StartupOrder, 1, Len(initCompleted))
    /\ readyEmitted = (IF Completed("ready") THEN 1 ELSE 0)
    /\ flushTimers = (IF Completed("setInterval") THEN 1 ELSE 0)
    /\ cronJobs = (IF Completed("cron.schedule") THEN 1 ELSE 0)
    /\ initPc = "rejected" =>
          (readyEmitted = 0 /\ flushTimers = 0 /\ cronJobs = 0)

\* every step of initialize has succeeded and the interval it armed has
\* fired
C18_Witness ==
    /\ initPc = "done"
    /\ initCompleted = StartupOrder
    /\ readyEmitted = 1
    /\ configTable = {[key |-> "logsTTL", value |-> "2592000000"]}
    /\ flushTicks > 0

\* C19: however often initialize is called, at most one interval and one
\* hourly job are armed.
C19_OneTimerAndOneSchedule == flushTimers <= 1 /\ cronJobs <= 1

\* the rows of the table with an id below n, and with an id above n
idsBelow(table, n) == {table[k] : k \in {j \in 1..Len(table) : table[j].id < n}}
idsAbove(table, n) == {table[k] : k \in {j \in 1..Len(table) : table[j].id > n}}

\* items is in ascending id order and holds the l rows of pool that are
\* extreme in the given direction, or all of pool when it has fewer
IsPage(items, pool, l, largest) ==
    LET got == {items[k] : k \in 1..Len(items)}
    IN  /\ \A k \in 1..(Len(items) - 1) : items[k].id < items[k + 1].id
        /\ got \subseteq pool
        /\ Len(items) = (IF Cardinality(pool) <= l THEN Cardinality(pool) ELSE l)
        /\ \A r \in got, q \in pool \ got :
              IF largest THEN q.id < r.id ELSE q.id > r.id

\* C20: a resolved getLogs({lt_id: N, limit: L}) returns the L rows with the
\* largest ids below N (all of them if there are fewer) in ascending id
\* order, and a resolved getLogs({gt_id: N, limit: L}) returns the L rows with
\* the smallest ids above N in ascending id order, for every stored table, N
\* and L.
C20_IdPagesAreTheNearestRows ==
    \A i \in 1..Len(calls) :
        (calls[i].op = "getLogs" /\ calls[i].pc = "resolved") =>
            /\ DOMAIN calls[i].filters = {"lt_id", "limit"} =>
                  IsPage(calls[i].items,
                         idsBelow(calls[i].atSettle, calls[i].filters.lt_id),
                         calls[i].filters.limit, TRUE)
            /\ DOMAIN calls[i].filters = {"gt_id", "limit"} =>
                  IsPage(calls[i].items,
                         idsAbove(calls[i].atSettle, calls[i].filters.gt_id),
                         calls[i].filters.limit, FALSE)

\* C21: a resolved getLogs call without an id or timestamp bound returns the
\* rows with the highest ids, at most limit of them (100 when no limit is
\* given), in ascending id order; and when the table holds just the three
\* entries that were posted together and written by one flush, getLogs()
\* returns those three in posting order.
C21_NewestRowsInAscendingOrder ==
    \A i \in 1..Len(calls) :
        (/\ calls[i].op = "getLogs"
         /\ calls[i].pc = "resolved"
         /\ DOMAIN calls[i].filters \subseteq {"limit"}) =>
            /\ IsPage(calls[i].items,
                      {calls[i].atSettle[k] : k \in 1..Len(calls[i].atSettle)},
                      IF "limit" \in DOMAIN calls[i].filters
                      THEN calls[i].filters.limit
                      ELSE DEFAULT_LOGS_LIMIT,
                      TRUE)
            /\ (/\ DOMAIN calls[i].filters = {}
                /\ Len(calls[i].atSettle) = 3
                /\ {calls[i].atSettle[k].n : k \in 1..3} = {1, 2, 3}
                /\ \E f \in 1..Len(flushes) :
                      /\ flushes[f].insert = "ok"
                      /\ Numbers(flushes[f].logsToPost) = << 1, 2, 3 >>) =>
                  Numbers(calls[i].items) = << 1, 2, 3 >>

\* the row's (source, level) is one of the level_json pairs
InLevels(row, filters) ==
    /\ supplied(filters, "level_json")
    /\ \E k \in 1..Len(filters.level_json) :
          /\ row.source = filters.level_json[k].source
          /\ row.level = filters.level_json[k].level

\* the row's errsole_id is the one asked for
HasErrsoleId(row, filters) ==
    truthy(filters, "errsole_id") /\ row.errsole_id = filters.errsole_id

\* the row's (source, level) is one of the level_json pairs or its errsole_id
\* is the one asked for
InGroup(row, filters) == InLevels(row, filters) \/ HasErrsoleId(row, filters)

\* the row passes every filter of the filters object: each id bound (a bound
\* of 0 is left aside here), each timestamp bound, the hostname list when it
\* is not empty, and the level_json / errsole_id group
PassesEvery(row, filters) ==
    /\ truthy(filters, "lt_id") => row.id < filters.lt_id
    /\ truthy(filters, "gt_id") => row.id > filters.gt_id
    /\ supplied(filters, "lte_timestamp") =>
          row.timestamp <= filters.lte_timestamp
    /\ supplied(filters, "gte_timestamp") =>
          row.timestamp >= filters.gte_timestamp
    /\ (supplied(filters, "hostnames") /\ Len(filters.hostnames) > 0) =>
          \E k \in 1..Len(filters.hostnames) :
              row.hostname = filters.hostnames[k]
    /\ (supplied(filters, "level_json") \/ truthy(filters, "errsole_id")) =>
          InGroup(row, filters)

\* C22: every entry a resolved getLogs call returns satisfies each filter that
\* was supplied, also when an id bound comes with a timestamp bound and when
\* lt_id comes with gt_id.
C22_GetLogsAppliesEveryFilter ==
    \A i \in 1..Len(calls) :
        (calls[i].op = "getLogs" /\ calls[i].pc = "resolved") =>
            \A k \in 1..Len(calls[i].items) :
                PassesEvery(calls[i].items[k], calls[i].filters)

\* the row passes every clause of the query but the level_json / errsole_id
\* group
PassesOthers(row, query) ==
    \A k \in 1..Len(query.whereClauses) :
        query.whereClauses[k].op # "OR" => satisfies(row, query.whereClauses[k])

Within(items, from, to) ==
    \A k \in 1..Len(items) :
        items[k].timestamp >= from /\ items[k].timestamp <= to

\* C24: a resolved searchLogs call given only lte_timestamp returns only rows
\* between lte_timestamp - 24 h and lte_timestamp and reports that lower bound
\* as gte_timestamp; given only gte_timestamp it returns only rows between
\* gte_timestamp and gte_timestamp + 24 h and reports that upper bound as
\* lte_timestamp; given both it reports both as they were; and the query of
\* getLogs holds no timestamp clause but those of the bounds supplied.
C24_SearchLogsAddsTheMissingBound ==
    \A i \in 1..Len(calls) :
        /\ (calls[i].op = "searchLogs" /\ calls[i].pc = "resolved") =>
              \E lte \in {supplied(calls[i].filters, "lte_timestamp")},
                 gte \in {supplied(calls[i].filters, "gte_timestamp")} :
                  /\ (lte /\ ~gte) =>
                        /\ calls[i].returned.lte_timestamp =
                              calls[i].filters.lte_timestamp
                        /\ calls[i].returned.gte_timestamp =
                              calls[i].filters.lte_timestamp - Day
                        /\ Within(calls[i].items,
                                  calls[i].filters.lte_timestamp - Day,
                                  calls[i].filters.lte_timestamp)
                  /\ (gte /\ ~lte) =>
                        /\ calls[i].returned.gte_timestamp =
                              calls[i].filters.gte_timestamp
                        /\ calls[i].returned.lte_timestamp =
                              calls[i].filters.gte_timestamp + Day
                        /\ Within(calls[i].items,
                                  calls[i].filters.gte_timestamp,
                                  calls[i].filters.gte_timestamp + Day)
                  /\ (lte /\ gte) =>
                        /\ calls[i].returned.lte_timestamp =
                              calls[i].filters.lte_timestamp
                        /\ calls[i].returned.gte_timestamp =
                              calls[i].filters.gte_timestamp
                  /\ (~lte /\ ~gte) =>
                        DOMAIN calls[i].returned =
                            DOMAIN calls[i].filters \cup {"limit"}
        /\ calls[i].op = "getLogs" =>
              \A k \in 1..Len(calls[i].query.whereClauses) :
                  calls[i].query.whereClauses[k].column = "timestamp" =>
                      \/ /\ calls[i].query.whereClauses[k].op = "<="
                         /\ supplied(calls[i].filters, "lte_timestamp")
                         /\ calls[i].query.whereClauses[k].value =
                               calls[i].filters.lte_timestamp
                      \/ /\ calls[i].query.whereClauses[k].op = ">="
                         /\ supplied(calls[i].filters, "gte_timestamp")
                         /\ calls[i].query.whereClauses[k].value =
                               calls[i].filters.gte_timestamp

\* searchLogs given only lte_timestamp has returned rows and has left out a
\* stored row that is older than the day before lte_timestamp
C24_Witness ==
    \E i \in 1..Len(calls) :
        /\ calls[i].op = "searchLogs"
        /\ calls[i].pc = "resolved"
        /\ DOMAIN calls[i].filters = {"lte_timestamp"}
        /\ calls[i].searchTerms = <<>>
        /\ Len(calls[i].items) > 0
        /\ \E k \in 1..Len(calls[i].atSettle) :
              /\ calls[i].atSettle[k].timestamp <
                    calls[i].filters.lte_timestamp - Day
              /\ \A j \in 1..Len(calls[i].items) :
                    calls[i].items[j].id # calls[i].atSettle[k].id

\* C25: every sequence a resolved getLogs or searchLogs call returns is in
\* ascending order, by timestamp and then id when the query was ordered by
\* timestamp and by id otherwise, and the result was reversed exactly when it
\* was fetched in descending order.
C25_ResultsAreAscending ==
    \A i \in 1..Len(calls) :
        (/\ calls[i].op \in {"getLogs", "searchLogs"}
         /\ calls[i].pc = "resolved") =>
            /\ calls[i].query.shouldReverse <=>
                  calls[i].query.orderBy \in
                      {"id DESC", "timestamp DESC, id DESC"}
            /\ \A k \in 1..(Len(calls[i].items) - 1) :
                  IF calls[i].query.orderBy \in
                        {"timestamp DESC, id DESC", "timestamp ASC, id ASC"}
                  THEN \/ calls[i].items[k].timestamp <
                             calls[i].items[k + 1].timestamp
                       \/ /\ calls[i].items[k].timestamp =
                                calls[i].items[k + 1].timestamp
                          /\ calls[i].items[k].id < calls[i].items[k + 1].id
                  ELSE calls[i].items[k].id < calls[i].items[k + 1].id

\* getLogs with lte_timestamp has fetched by descending timestamp and has
\* returned an older row with a higher id first
C25_Witness ==
    \E i \in 1..Len(calls) :
        /\ calls[i].op = "getLogs"
        /\ calls[i].pc = "resolved"
        /\ supplied(calls[i].filters, "lte_timestamp")
        /\ calls[i].query.orderBy = "timestamp DESC, id DESC"
        /\ Len(calls[i].items) >= 2
        /\ calls[i].items[1].id > calls[i].items[2].id
        /\ calls[i].items[1].timestamp < calls[i].items[2].timestamp

\* the steps of the transaction, in the order the method issues them
TransactionSteps ==
    << "beginTransaction", "fetchPrevious", "insert", "count", "commit" >>

\* the position of a step in the transaction
stepIndex(step) == CHOOSE k \in 1..Len(TransactionSteps) : TransactionSteps[k] = step

\* the ids of the rows of the notifications table
storedIds == {notificationsTable[k].id : k \in 1..Len(notificationsTable)}

\* C26: when beginTransaction, the fetch of the previous row, the insert, the
\* count or the commit of an insertNotificationItem call fails, the call has
\* issued the steps up to the failed one and then the rollback and nothing
\* else but the release; no row of the call is stored; and the call rejects
\* with the error of the failed step, whatever the rollback reported.
C26_FailedStepRollsBackAndRejects ==
    \A i \in 1..Len(calls) :
        (/\ calls[i].op = "insertNotificationItem"
         /\ calls[i].failedAt \in
               {TransactionSteps[k] : k \in 1..Len(TransactionSteps)})
        => /\ calls[i].pc \in {"rollback", "rejected"}
           /\ calls[i].steps =
                 SubSeq(TransactionSteps, 1, stepIndex(calls[i].failedAt))
                    \o << "rollback" >>
                    \o (IF calls[i].pc = "rejected" THEN << "release" >> ELSE <<>>)
           /\ calls[i].pc = "rejected" =>
                 /\ calls[i].error = calls[i].failedAt
                 /\ calls[i].inserted = {}
           /\ \A r \in calls[i].inserted : r.id \notin storedIds

\* a call whose commit failed has rolled back and rejected with the error of
\* the commit, and another whose insert failed has rejected with the error of
\* the insert
C26_Witness ==
    /\ \E i \in 1..Len(calls) :
          /\ calls[i].op = "insertNotificationItem"
          /\ calls[i].pc = "rejected"
          /\ calls[i].failedAt = "commit"
          /\ calls[i].error = "commit"
          /\ calls[i].steps[Len(calls[i].steps) - 1] = "rollback"
    /\ \E i \in 1..Len(calls) :
          /\ calls[i].op = "insertNotificationItem"
          /\ calls[i].pc = "rejected"
          /\ calls[i].failedAt = "insert"
          /\ calls[i].error = "insert"

\* the insertNotificationItem calls that hold a connection: acquired, and
\* neither resolved nor rejected yet
notificationHolders ==
    {i \in 1..Len(calls) :
        /\ calls[i].op = "insertNotificationItem"
        /\ calls[i].pc \in {"beginTransaction", "fetchPrevious", "insert",
                            "count", "commit", "rollback"}}

\* the flushes that hold a connection: their INSERT has not called back
flushHolders == {i \in 1..Len(flushes) : flushes[i].pc = "insert"}

\* how many times a call has released its connection
releases(call) ==
    Cardinality({k \in 1..Len(call.steps) : call.steps[k] = "release"})

\* C27: the connections checked out of the pool are exactly those of the
\* insertNotificationItem calls and of the flushes that have acquired one and
\* have not finished; a call that has resolved, or rejected after a failed
\* step or a failed commit, has released once; a call whose acquisition
\* failed has released nothing; and when no call and no flush is in flight no
\* connection is checked out.
C27_EveryConnectionIsReleasedOnce ==
    /\ checkedOut = Cardinality(notificationHolders) + Cardinality(flushHolders)
    /\ \A i \in 1..Len(calls) :
          calls[i].op = "insertNotificationItem" =>
             releases(calls[i]) =
                IF /\ calls[i].pc \in {"resolved", "rejected"}
                   /\ calls[i].failedAt # "getConnection"
                THEN 1 ELSE 0
    /\ (/\ \A i \in 1..Len(calls) : calls[i].pc \in {"resolved", "rejected"}
        /\ \A i \in 1..Len(flushes) : flushes[i].pc \in {"resolved", "rejected"})
       => checkedOut = 0

\* everything has completed with no connection checked out: one call
\* resolved, one rejected after its commit failed, and a flush whose INSERT
\* failed
C27_Witness ==
    /\ checkedOut = 0
    /\ \A i \in 1..Len(calls) : calls[i].pc \in {"resolved", "rejected"}
    /\ \A i \in 1..Len(flushes) : flushes[i].pc \in {"resolved", "rejected"}
    /\ \E i \in 1..Len(calls) : calls[i].pc = "resolved" /\ releases(calls[i]) = 1
    /\ \E i \in 1..Len(calls) :
          /\ calls[i].failedAt = "commit"
          /\ calls[i].pc = "rejected"
          /\ releases(calls[i]) = 1
    /\ \E i \in 1..Len(flushes) : flushes[i].insert = "failed"

\* call j of insertNotificationItem was made after call i had resolved, both
\* resolved, for the same hostname and hashed_message, the rows of i and of j
\* created on the UTC day j counted, and the table j left holds no other row
\* with that hashed_message
SequentialPair(i, j) ==
    /\ i # j
    /\ calls[i].op = "insertNotificationItem"
    /\ calls[j].op = "insertNotificationItem"
    /\ calls[i].pc = "resolved"
    /\ calls[j].pc = "resolved"
    /\ i \in calls[j].settledBefore
    /\ calls[i].notification.hostname = calls[j].notification.hostname
    /\ calls[i].notification.hashed_message = calls[j].notification.hashed_message
    /\ \A r \in calls[i].inserted \cup calls[j].inserted :
          startOfDayUTC(r.created_at) = calls[j].startOfDay
    /\ {r \in rowsOf(notificationsTable) :
           r.hashed_message = calls[j].notification.hashed_message}
          = calls[i].inserted \cup calls[j].inserted

\* C28: of two successful insertNotificationItem calls made one after the
\* other on the same UTC day with the same hostname and hashed_message, no
\* other row having that hashed_message, the second returns
\* todayNotificationCount = 2 and the row the first inserted as
\* previousNotificationItem.
C28_SecondCallCountsTwoAndReturnsFirstRow ==
    \A i \in 1..Len(calls), j \in 1..Len(calls) :
        SequentialPair(i, j) =>
            /\ calls[j].count = 2
            /\ calls[j].previous = calls[i].inserted
            /\ Cardinality(calls[i].inserted) = 1

\* two such calls have resolved, the row of the second created some time
\* after that of the first, the first having found no previous row
C28_Witness ==
    \E i \in 1..Len(calls), j \in 1..Len(calls) :
        /\ SequentialPair(i, j)
        /\ calls[i].previous = {}
        /\ calls[i].count = 1
        /\ calls[j].count = 2
        /\ \E r \in calls[i].inserted, q \in calls[j].inserted :
              r.created_at < q.created_at

\* the outcome getUserByEmail(email) has on a users table
retrievable(table, email) ==
    selected(NewUserCall("getUserByEmail", [email |-> email], "select",
                         "none", 1),
             FALSE, table)

\* C29: a createUser whose INSERT reaches the database and finds the email
\* in the users table rejects with 'A user with the provided email already
\* exists.' and leaves the table as it was, so that getUserByEmail still
\* resolves with the user that was there; and at no time do two rows of the
\* users table have the same email.
C29_DuplicateEmailIsRefused ==
    /\ \A i \in 1..Len(calls) :
          (/\ calls[i].op = "createUser"
           /\ calls[i].pc \in {"resolved", "rejected"}
           /\ calls[i].error # "query failed"
           /\ usersByEmail(calls[i].before, calls[i].args.email) # {})
          => /\ calls[i].pc = "rejected"
             /\ calls[i].error =
                   "A user with the provided email already exists."
             /\ calls[i].after = calls[i].before
             /\ retrievable(calls[i].after, calls[i].args.email).pc = "resolved"
             /\ retrievable(calls[i].after, calls[i].args.email).item =
                   {public(u) :
                       u \in usersByEmail(calls[i].before, calls[i].args.email)}
    /\ \A u \in usersTable, v \in usersTable : u.email = v.email => u = v

\* a createUser with the email of the stored user, under another name, has
\* been refused with the message, and a getUserByEmail made afterwards has
\* resolved with the stored user
C29_Witness ==
    \E i \in 1..Len(calls), j \in 1..Len(calls) :
        /\ i < j
        /\ calls[i].op = "createUser"
        /\ calls[i].pc = "rejected"
        /\ calls[i].error = "A user with the provided email already exists."
        /\ calls[i].args.email = EarlierUser.email
        /\ calls[i].args.name # EarlierUser.name
        /\ calls[j].op = "getUserByEmail"
        /\ calls[j].pc = "resolved"
        /\ calls[j].item = {public(EarlierUser)}
        /\ usersTable = {EarlierUser}

\* the call was made without one of the arguments its method requires
missesArgument(call) ==
    CASE call.op = "verifyUser" ->
            falsy(call.args.email) \/ falsy(call.args.password)
      [] call.op = "getUserByEmail" -> falsy(call.args.email)
      [] call.op = "updateUserByEmail" -> falsy(call.args.email)
      [] call.op = "updatePassword" ->
            \/ falsy(call.args.email)
            \/ falsy(call.args.password)
            \/ falsy(call.args.newPassword)
      [] call.op = "deleteUser" -> falsyId(call.args.id)
      [] call.op \in {"getConfig", "setConfig", "deleteConfig"} ->
            falsy(call.key)
      [] OTHER -> FALSE

\* C30: a call of verifyUser, getUserByEmail, updateUserByEmail,
\* updatePassword, deleteUser, getConfig, setConfig or deleteConfig that
\* misses a required argument is rejected and has handed no statement to the
\* pool.
C30_MissingArgumentIsRejectedBeforeAnyQuery ==
    \A i \in 1..Len(calls) :
        missesArgument(calls[i]) =>
            /\ calls[i].pc = "rejected"
            /\ calls[i].queries = 0

\* C31: a sweep sleeps its 10 seconds only after a batch that deleted more
\* than 0 rows; after a batch that deleted 0 rows it is not found sleeping.
C31_DelayOnlyAfterNonEmptyBatch ==
    /\ \A i \in 1..Len(logSweeps) :
          logSweeps[i].pc = "sleep" => logSweeps[i].deletedRowCount > 0
    /\ \A i \in 1..Len(notificationSweeps) :
          notificationSweeps[i].pc = "sleep" =>
             notificationSweeps[i].deletedRowCount > 0

\* the rows of the first table that the second no longer has
removed(table, after) == rowsOf(table) \ rowsOf(after)

\* C32: every row that leaves the logs table is taken by the DELETE of a logs
\* sweep and has a timestamp below the threshold of that sweep, and the same
\* holds for the notifications table with created_at; a step of a logs sweep
\* leaves the notifications table alone and a step of a notifications sweep
\* the logs table, and neither changes pendingLogs or the config table.
C32_SweepsDeleteOnlyExpiredRowsOfTheirTable ==
    [][/\ \A r \in removed(logsTable, logsTable') :
             \E i \in 1..Len(logSweeps) :
                /\ logSweeps[i].pc = "delete"
                /\ logSweeps'[i].pc = "sleep"
                /\ r.timestamp < logSweeps[i].expirationTime
       /\ \A r \in removed(notificationsTable, notificationsTable') :
             \E i \in 1..Len(notificationSweeps) :
                /\ notificationSweeps[i].pc = "delete"
                /\ notificationSweeps'[i].pc = "sleep"
                /\ r.created_at < notificationSweeps[i].expirationTime
       /\ (logSweeps' # logSweeps /\ cronTicks' = cronTicks) =>
             UNCHANGED << notificationsTable, pendingLogs, configTable >>
       /\ (notificationSweeps' # notificationSweeps /\ cronTicks' = cronTicks) =>
             UNCHANGED << logsTable, pendingLogs, configTable >>
      ]_vars

\* a logs sweep and a notifications sweep have each deleted a row and ended,
\* and each table still holds the row written at the threshold
C32_Witness ==
    /\ \E i \in 1..Len(logSweeps) :
          /\ logSweeps[i].pc = "done"
          /\ Len(logSweeps[i].affected) > 0
          /\ logSweeps[i].affected[1] > 0
          /\ \E r \in rowsOf(logsTable) :
                r.timestamp = logSweeps[i].expirationTime
    /\ \E i \in 1..Len(notificationSweeps) :
          /\ notificationSweeps[i].pc = "done"
          /\ Len(notificationSweeps[i].affected) > 0
          /\ notificationSweeps[i].affected[1] > 0
          /\ \E r \in rowsOf(notificationsTable) :
                r.created_at = notificationSweeps[i].expirationTime

\* C33: a setConfig(k, v) call that has resolved has resolved with the entry
\* of key k with value v, whatever other calls ran between its upsert and its
\* re-read.
C33_SetConfigReturnsWhatItStored ==
    \A i \in 1..Len(calls) :
        (calls[i].op = "setConfig" /\ calls[i].pc = "resolved") =>
            calls[i].item = {[key |-> calls[i].key, value |-> calls[i].value]}

\* C34: every insertNotificationItem call that has resolved returns a
\* todayNotificationCount of at least 1 and a previousNotificationItem that
\* is not the row the call inserted.
C34_CountIncludesOwnRow ==
    \A i \in 1..Len(calls) :
        (calls[i].op = "insertNotificationItem" /\ calls[i].pc = "resolved") =>
            /\ calls[i].count >= 1
            /\ calls[i].previous \cap calls[i].inserted = {}

\* C35: the step in which deleteAllLogs resolves leaves the logs table empty
\* and pendingLogs, the config table, the users table and the notifications
\* table as they were; every entry that was in pendingLogs at that step is
\* still there or was drained by the next flushLogs invocation; and the step
\* in which the INSERT of that invocation succeeds puts the entry in the logs
\* table.
C35_DeleteAllLogsClearsOnlyTheTable ==
    /\ [][\A i \in 1..Len(calls) :
             /\ (/\ calls[i].op = "deleteAllLogs"
                 /\ calls[i].pc = "truncate"
                 /\ calls'[i].pc = "resolved")
                => /\ logsTable' = <<>>
                   /\ UNCHANGED << pendingLogs, configTable, usersTable,
                                   notificationsTable >>
             /\ (/\ calls[i].op = "deleteAllLogs"
                 /\ calls[i].pc = "resolved"
                 /\ Len(flushes) > calls[i].flushesBefore
                 /\ flushes[calls[i].flushesBefore + 1].insert # "ok"
                 /\ flushes'[calls[i].flushesBefore + 1].insert = "ok")
                => \A k \in 1..Len(calls[i].buffered) :
                      \E r \in 1..Len(logsTable') :
                         logsTable'[r].n = calls[i].buffered[k].n]_vars
    /\ [](\A i \in 1..Len(calls) :
             (calls[i].op = "deleteAllLogs" /\ calls[i].pc = "resolved") =>
                \A k \in 1..Len(calls[i].buffered) :
                   \/ \E p \in 1..Len(pendingLogs) :
                         pendingLogs[p] = calls[i].buffered[k]
                   \/ /\ Len(flushes) > calls[i].flushesBefore
                      /\ \E p \in 1..Len(flushes[calls[i].flushesBefore + 1].logsToPost) :
                            flushes[calls[i].flushesBefore + 1].logsToPost[p]
                               = calls[i].buffered[k])

\* deleteAllLogs has resolved on a table that held rows while an entry was
\* buffered, and the next flush has written that entry to the emptied table
C35_Witness ==
    \E i \in 1..Len(calls) :
        /\ calls[i].op = "deleteAllLogs"
        /\ calls[i].pc = "resolved"
        /\ Len(calls[i].stored) > 0
        /\ Len(calls[i].buffered) > 0
        /\ pendingLogs = <<>>
        /\ Len(logsTable) = Len(calls[i].buffered)
        /\ \A k \in 1..Len(calls[i].buffered) :
              logsTable[k].n = calls[i].buffered[k].n
        /\ usersTable = {EarlierUser}
        /\ notificationsTable = << EarlierNotification >>

\* the numbers of the entries that wait in pendingLogs
pendingNumbers == {pendingLogs[k].n : k \in 1..Len(pendingLogs)}

\* the numbers of the entries the flushes have drained
drainedNumbers ==
    UNION {{drained[b][k].n : k \in 1..Len(drained[b])} : b \in 1..Len(drained)}

\* the number of entries the first p postLogs calls have appended
RECURSIVE postedUpTo(_)
postedUpTo(p) == IF p = 0 THEN 0 ELSE postCalls[p].entries + postedUpTo(p - 1)

\* the numbers of the entries postLogs call p has appended, once it is made
entriesOf(p) ==
    IF p > Len(postCalls) THEN {}
    ELSE (postedUpTo(p - 1) + 1)..postedUpTo(p)

\* C36: once initialize has completed, the entries that a postLogs call has
\* appended to pendingLogs are eventually drained by a flush and are then no
\* longer in pendingLogs; and every firing of the flush timer leaves
\* pendingLogs empty, so that an entry waits for one firing at most.
C36_EveryEntryIsEventuallyDrained ==
    /\ \A p \in 1..MaxTimerPostCalls :
          (entriesOf(p) \cap pendingNumbers # {})
             ~> /\ entriesOf(p) # {}
                /\ entriesOf(p) \subseteq drainedNumbers
                /\ entriesOf(p) \cap pendingNumbers = {}
    /\ [][flushTicks' # flushTicks =>
             /\ pendingLogs' = <<>>
             /\ pendingNumbers \subseteq drainedNumbers']_vars

\* an entry waited in pendingLogs below the batch size and the firing of the
\* timer that followed has drained it
C36_Witness ==
    /\ flushTicks > 0
    /\ pendingLogs = <<>>
    /\ \E p \in 1..Len(postCalls) : postCalls[p].flush = 0
    /\ \E f \in 1..Len(flushes) :
          /\ flushes[f].by = "timer"
          /\ Len(flushes[f].logsToPost) > 0

\* initialize has rejected in checkConnection, setBufferSize or createTables
failedBeforeCreateTables == initPc = "rejected" /\ ~Completed("createTables")

\* C37: once initialize has failed before createTables completed,
\* isConnectionInProgress stays set for good: the interval is not armed,
\* every flushLogs invocation is asleep in its while loop, nothing has been
\* drained or written, and each later step leaves pendingLogs as it is or,
\* when it is a postLogs call, appends that call's entries to it.
C37_FailedStartupNeverFlushes ==
    /\ [](failedBeforeCreateTables =>
             /\ isConnectionInProgress
             /\ flushTimers = 0
             /\ \A i \in 1..Len(flushes) : flushes[i].pc = "sleep"
             /\ drained = <<>>
             /\ logsTable = <<>>
             /\ Len(pendingLogs) = nextEntry)
    /\ [][failedBeforeCreateTables =>
             /\ failedBeforeCreateTables'
             /\ isConnectionInProgress'
             /\ Len(pendingLogs') >= Len(pendingLogs)
             /\ SubSeq(pendingLogs', 1, Len(pendingLogs)) = pendingLogs
             /\ Len(postCalls') > Len(postCalls) =>
                   Len(pendingLogs') =
                      Len(pendingLogs) + postCalls'[Len(postCalls')].entries]_vars

\* initialize has failed before createTables completed, two postLogs calls
\* have each started a flushLogs, and both invocations are asleep in the
\* while loop with more than batchSize entries waiting
C37_Witness ==
    /\ failedBeforeCreateTables
    /\ Len(postCalls) = 2
    /\ Len(flushes) = 2
    /\ \A i \in 1..Len(flushes) : flushes[i].pc = "sleep" /\ flushes[i].waited
    /\ Len(pendingLogs) > batchSize

\* flushLogs invocation i drained its batch before invocation j drained its
\* own: the entries of i were submitted before those of j
drainedBefore(i, j) ==
    /\ flushes[i].logsToPost # <<>>
    /\ flushes[j].logsToPost # <<>>
    /\ flushes[i].logsToPost[1].n < flushes[j].logsToPost[1].n

\* C38: when two flushes overlap, the INSERT of the one that drained later is
\* issued only after the one that drained earlier has got its answer from
\* the pool, and the rows of the logs table are in submission order across
\* batches.
C38_InsertsIssuedInDrainOrder ==
    /\ \A i, j \in 1..Len(flushes) :
          (drainedBefore(i, j) /\ flushes[j].insert # "none") =>
              flushes[i].pc # "getConnection"
    /\ \A a, b \in 1..Len(logsTable) :
          a < b => logsTable[a].n < logsTable[b].n

\* when no two flushes are between drain and stored rows at the same time
\* the rows are in submission order
NoOverlapKeepsOrder ==
    [][(\A i, j \in 1..Len(flushes) :
           drainedBefore(i, j) => flushes[i].pc \in {"resolved", "rejected"})
       /\ (\A a, b \in 1..Len(logsTable) :
              a < b => logsTable[a].n < logsTable[b].n)
       => (\A a, b \in 1..Len(logsTable') :
              a < b => logsTable'[a].n < logsTable'[b].n)]_vars

\* the call was given an empty level_json list and no errsole_id
emptyLevelsOnly(filters) ==
    /\ supplied(filters, "level_json")
    /\ Len(filters.level_json) = 0
    /\ ~truthy(filters, "errsole_id")

\* C39: a getLogs or searchLogs call given an empty level_json list and no
\* errsole_id builds a query with no clause for that filter group, and in
\* particular no empty parenthesised group, so that the statement parses.
C39_EmptyLevelListAddsNoClause ==
    \A i \in 1..Len(calls) :
        (/\ calls[i].op \in {"getLogs", "searchLogs"}
         /\ emptyLevelsOnly(calls[i].filters)) =>
            /\ wellFormed(calls[i].query)
            /\ \A k \in 1..Len(calls[i].query.whereClauses) :
                  calls[i].query.whereClauses[k].op # "OR"

\* a getLogs or searchLogs call given an empty level_json list and no
\* errsole_id never resolves: its statement holds the group () and the
\* server refuses it
EmptyLevelListIsRejected ==
    \A i \in 1..Len(calls) :
        (/\ calls[i].op \in {"getLogs", "searchLogs"}
         /\ emptyLevelsOnly(calls[i].filters)) =>
            /\ ~wellFormed(calls[i].query)
            /\ calls[i].pc # "resolved"

\* C40: when the write of the default by ensureLogsTTL takes effect and the
\* logsTTL key holds a value by then (stored by a setConfig since
\* ensureLogsTTL read the key and found none), the key keeps that value.
C40_EnsureLogsTTLKeepsConcurrentValue ==
    [][\A i \in 1..Len(calls) :
          (/\ calls[i].op = "ensureLogsTTL"
           /\ calls[i].pc = "upsert"
           /\ calls'[i].pc = "reread"
           /\ configRows(configTable, "logsTTL") # {}) =>
              configRows(configTable', "logsTTL") =
                  configRows(configTable, "logsTTL")]_vars

\* an ensureLogsTTL call in whose course no other call ran leaves a value it
\* found as it was
EnsureLogsTTLAloneKeepsValue ==
    \A i \in 1..Len(calls) :
        (/\ calls[i].op = "ensureLogsTTL"
         /\ RanAlone(calls[i])
         /\ calls[i].atCall # {}) =>
            calls[i].atSettle = calls[i].atCall

====
